---- MODULE Spec2Model ----
(***************************************************************************)
(* Azoteq IQS7219A / IQS323 / IQS9150 drivers: bus transport, device       *)
(* synchronisation (dev_init, ATI trigger) and the status decode pass.     *)
(*                                                                         *)
(* The chip, the I2C adapter and the RDY line are the environment: every   *)
(* GPIO sample, every I2C return value and every word read is drawn from   *)
(* a small set.  Error codes are the kernel's errno numbers, negated as    *)
(* in the source.                                                          *)
(***************************************************************************)
EXTENDS Integers, Sequences, FiniteSets, TLC

(* ------------------------------------------------------------------ *)
(* errno values used by the drivers                                    *)
(* ------------------------------------------------------------------ *)
EIO == 5
EAGAIN == 11
ENOMEM == 12
EBUSY == 16
EINVAL == 22
ENODATA == 61
ETIMEDOUT == 110

(* ------------------------------------------------------------------ *)
(* 16-bit words and the bit operations of the source                   *)
(* ------------------------------------------------------------------ *)
U16_MAX == 65535

RECURSIVE Pow2(_)
Pow2(n) == IF n = 0 THEN 1 ELSE 2 * Pow2(n - 1)

\* BIT(n)
BIT(n) == Pow2(n)

\* bit n of word v, as 0 or 1
BitOf(v, n) == (v \div Pow2(n)) % 2

RECURSIVE BitAndN(_, _, _)
BitAndN(a, b, n) ==
    IF n = 0 \/ a = 0 \/ b = 0 THEN 0
    ELSE (a % 2) * (b % 2) + 2 * BitAndN(a \div 2, b \div 2, n - 1)

\* a & b on 16-bit words
BitAnd(a, b) == BitAndN(a, b, 16)

\* a & ~b on 16-bit words
BitClear(a, b) == a - BitAnd(a, b)

\* a | b on 16-bit words
BitOr(a, b) == a + b - BitAnd(a, b)

\* (v & mask) != 0
Test(v, mask) == BitAnd(v, mask) # 0

(* ------------------------------------------------------------------ *)
(* Program constants                                                    *)
(* ------------------------------------------------------------------ *)
IQS7219_COMMS_ERROR == 61166
IQS323_COMMS_ERROR == 61166
IQS9150_COMMS_ERROR == 61166

IQS7219_NUM_RETRIES == 5
IQS323_NUM_RETRIES == 5
IQS9150_NUM_RETRIES == 5

\* PAGE_SIZE, the longest single burst of the iqs9150 wrappers
IQS9150_MAX_LEN == 4096
\* 0x14F0 - 0x115C bytes
IQS9150_REG_BUF_LEN == 916
IQS9150_ENG_BUF_LEN == 6

(* ------------------------------------------------------------------ *)
(* Bounds of the model                                                  *)
(* ------------------------------------------------------------------ *)
\* RDY samples one irq_poll takes before its timeout has elapsed
MaxPolls == 2

Variants == {"iqs7219", "iqs323", "iqs9150"}

COMMS_ERROR(v) ==
    CASE v = "iqs7219" -> IQS7219_COMMS_ERROR
      [] v = "iqs323" -> IQS323_COMMS_ERROR
      [] OTHER -> IQS9150_COMMS_ERROR

NUM_RETRIES(v) ==
    CASE v = "iqs7219" -> IQS7219_NUM_RETRIES
      [] v = "iqs323" -> IQS323_NUM_RETRIES
      [] OTHER -> IQS9150_NUM_RETRIES

\* enum iqs9150_comms_mode
CommsModes == {"WAIT", "FREE", "FORCE"}

\* what gpiod_get_value_cansleep may return: an error, deasserted, asserted
GpioSamples == {-EINVAL, 0, 1}

\* what the I2C adapter may return for a transfer of `want` units: an
\* error, a short count, the full count
I2cResults(want) == {-ETIMEDOUT, want - 1, want}

\* first word of a read: the sentinel or data
BusWords == {IQS7219_COMMS_ERROR, 0, 685}

\* byte lengths the iqs9150 driver passes to its burst wrappers
BurstLens9150 == {2, IQS9150_ENG_BUF_LEN, IQS9150_REG_BUF_LEN}

Min(a, b) == IF a < b THEN a ELSE b

(* ================================================================== *)
(* Bus transport: force_comms, irq_poll, read_burst, write_burst       *)
(* ================================================================== *)
VARIABLES
    variant,      \* which driver
    comms_mode,   \* iqs9150->comms_mode
    op,           \* "read" or "write"
    rem_len,      \* iqs9150 wrapper: bytes still to transfer
    bpc,          \* position in the burst call
    bi,           \* loop counter i of the retry loop
    bret,         \* ret of the burst function
    fc_ret,       \* return value of the last force_comms
    last_chance,  \* readx_poll_timeout: the timeout has elapsed, one sample left
    attempts,     \* force_comms calls made by the current call
    xfers,        \* bus transactions made by the current call
    fc_sample,    \* first RDY sample of the current force_comms
    fc_wakes,     \* wake commands passed to the adapter by the current force_comms
    fc_wake_ok,   \* the wake command went out in full
    fc_polls,     \* RDY samples taken by irq_poll in the current force_comms
    fc_seen,      \* irq_poll saw RDY asserted
    first_word,   \* first word returned by the last read transaction
    last_end      \* how the last attempt ended: "none", "fc", "bus", "sentinel", "ok"

busRest == <<variant, op, rem_len, bpc, bi, bret, fc_ret, last_chance, attempts,
             xfers, fc_sample, fc_wakes, fc_wake_ok, fc_polls, fc_seen,
             first_word, last_end>>
busVars == <<comms_mode, busRest>>

fcGhost == <<fc_sample, fc_wakes, fc_wake_ok, fc_polls, fc_seen>>

\* the state of the drivers above the transport
VARIABLES
    pc,           \* position of the driver
    stack,        \* return positions of the calls in progress
    error,        \* the local `error` of the running function / the value returned
    dir,          \* dev_init: READ or WRITE
    grp,          \* dev_init: loop counter i over the register groups
    row,          \* iqs323_dev_init: loop counter j over the rows of a group
    init_state,   \* dev_init / init_device: "idle", "running" or "returned"
    init_err,     \* what the last dev_init / init_device returned
    wlog,         \* bus accesses of the current top-level call, in order
    ati_i,        \* ATI trigger: loop counter i
    ati_n,        \* iqs7219 ATI trigger: status polls made in the current attempt
    sys_setup,    \* iqs7219_ati_trigger: local sys_setup
    sys_status,   \* iqs323_ati_trigger: local sys_status (-1: not read yet)
    aan,          \* how many of [active, active, neither] the status words read
                  \* by the current ATI call have matched; -1 once they differ
    err_only,     \* every attempt the current ATI call has ended so far ended
                  \* with the ATI-error flag read
    redo_writes,  \* redo-ATI commands put on the bus by the current ATI call
    ati_state,    \* ATI trigger: "idle", "running" or "returned"
    ati_err,      \* what the last ATI trigger returned
    intf_mode,    \* iqs7219->intf_mode (configured) / iqs323->intf_mode (cached)
    mode_owed,    \* iqs323: a call of write_mode has failed and no decode pass
                  \* has completed normally since
    pxs_flags,    \* iqs7219->pxs_flags, the cached status flags
    silent,       \* per channel: the cached flags of the channel last changed
                  \* while the channel's events were disabled
    sys_setup0,   \* sys_setup[0] of the register image
    comms_setup,  \* iqs7219->comms_setup (0: register not present)
    event_mask,   \* iqs7219->event_mask[]
    event_enable, \* iqs7219->event_enable[]
    trig_enable,  \* iqs7219->trig_enable
    sl_enable,    \* iqs323: test_bit(EV_ABS, kp_idev->evbit)
    eng_word,     \* iqs9150: get_unaligned_le16(iqs9150->eng_buf)
    kp_type,      \* iqs9150: the entries i of iqs9150_kp_events with kp_type[i]
                  \* set; empty: there is no keypad device
    val_req,      \* iqs7219: the caller passed val != NULL;
                  \* iqs323: the caller is report_async
    check_ok,     \* iqs323: check_comms == IQS323_COMMS_ERROR in this pass
    sys_flags,    \* status word of the current decode pass
    new_flags,    \* iqs7219: proximity flags word; iqs323: slider position
    events,       \* events dispatched by the current decode pass
    val_out,      \* the current decode pass stored a channel value
    scan,         \* the readings behind that value and the delta made of them
    trig_pending, \* report_sync: local trig_pending
    trig_polled,  \* the current decode pass polled the trigger
    pxs_before,   \* the cached status flags when the current pass started
    mode_before,  \* iqs9150_report: comms_mode when the call started, which
                  \* is what its local comms_mode is given
    status,       \* iqs9150_report: flags[0], flags[1], gesture_x and gesture_y
                  \* of the status block read by the current pass
    branch,       \* branch the current pass took on the status word
    acted,        \* recovery the current decode pass started: "none", "init", "ati"
    pp_call,      \* parse_props: the group, key, index and node it is called with
    fw,           \* the firmware node: property name -> Absent, Empty or a u32
    pp_setup,     \* parse_props: the register image `setup` it works on
    pp_i,         \* parse_props: loop counter i over the property table (from 1)
    images,       \* the image before the first run and after each run
    rets,         \* what each run of parse_props returned
    ctx,          \* per context: the callback it runs, its path and position
    lock,         \* holder of the instance mutex, or "none"
    irq_depth,    \* disable depth of the interrupt line (0: enabled)
    onbus,        \* contexts inside a handshake-plus-transaction sequence
    mutating,     \* contexts inside an update of the device state
    probe,        \* probe: its position, the calls it has made, its result
    pm,           \* iqs323_runtime_pm: its position, locals and calls
    mux,          \* iqs7219: scan_mux[] and what became of it
    comms_reg,    \* iqs7219: the word last written to the communication setup
                  \* register with success (-1: none yet)
    mirror,       \* dev_init(READ): the register image, the buffer and the loop
    sched,        \* iqs7219: the threads that read the status and run the
                  \* trigger consumer, the lock and the sample they share
    pwr,          \* iqs323_parse_all: the images behind the parsing and the
                  \* power mode made of them
    rate          \* iqs7219_write_rate: the request, the device register and
                  \* sys_setup[5]

callVars == <<pc, stack, error>>
initVars == <<dir, grp, row, init_state, init_err>>
atiVars == <<ati_i, ati_n, sys_setup, sys_status, aan, err_only, redo_writes,
             ati_state, ati_err>>
devVars == <<intf_mode, mode_owed, pxs_flags, silent>>
cfgVars == <<sys_setup0, comms_setup, event_mask, event_enable, trig_enable,
             sl_enable, eng_word, kp_type>>
passVars == <<val_req, check_ok, sys_flags, new_flags, events, val_out, scan,
              trig_pending, trig_polled, pxs_before, mode_before, status, branch, acted>>
propVars == <<pp_call, fw, pp_setup, pp_i, images, rets>>
ctxRest == <<ctx, irq_depth, onbus, mutating>>
ctxVars == <<lock, ctxRest>>
sideVars == <<mirror, sched, pwr, rate>>
extRest == <<sideVars, probe, pm, mux, comms_reg>>
extVars == <<ctxVars, extRest>>
drvVars == <<callVars, initVars, wlog, atiVars, devVars, cfgVars, passVars,
             propVars, extVars>>

vars == <<busVars, drvVars>>

BusInit ==
    /\ variant \in Variants
    /\ comms_mode \in (IF variant = "iqs9150" THEN CommsModes ELSE {"FORCE"})
    /\ op \in {"read", "write"}
    /\ rem_len \in (IF variant = "iqs9150" THEN BurstLens9150 ELSE {0})
    /\ bpc = "call"
    /\ bi = 0
    /\ bret = 0
    /\ fc_ret = 0
    /\ last_chance = FALSE
    /\ attempts = 0
    /\ xfers = 0
    /\ fc_sample = "none"
    /\ fc_wakes = 0
    /\ fc_wake_ok = FALSE
    /\ fc_polls = 0
    /\ fc_seen = FALSE
    /\ first_word = 0
    /\ last_end = "none"

\* the ret an I2C call leaves behind: if (ret < want) { if (ret >= 0) ret = -EIO; }
I2cError(r) == IF r >= 0 THEN -EIO ELSE r

\* the wake command: { 0xFF, 0x00 } on the iqs7219, { 0xFF } on the others
WakeLen(v) == IF v = "iqs7219" THEN 2 ELSE 1

RetryAgainOffByOne(v, i) == i <= NUM_RETRIES(v)

\* for (i = 0; i < NUM_RETRIES; i++)
RetryAgain(v, i) == i < NUM_RETRIES(v)

IsCommsErrorNever(v, w) == FALSE

\* get_unaligned_le16(msg[1].buf) == COMMS_ERROR
IsCommsError(v, w) == w = COMMS_ERROR(v)

ReadyAssertedOrLow(s) == s >= 0

\* force_comms: "else if (ret > 0) return 0;" on the first RDY sample
ReadyAsserted(s) == s > 0

\* entry of read_burst / write_burst; write_burst allocates its message first
BurstEnter ==
    /\ bpc = "call"
    /\ \E alloc_ok \in BOOLEAN :
         IF op = "write" /\ ~alloc_ok
         THEN /\ bret' = -ENOMEM
              /\ bpc' = "wrap_ret"
              /\ bi' = bi
         ELSE /\ bret' = 0
              /\ bi' = 0
              /\ bpc' = "loop"
    /\ attempts' = 0
    /\ xfers' = 0
    /\ last_end' = "none"
    /\ UNCHANGED <<variant, comms_mode, op, rem_len, fc_ret, last_chance,
                   first_word>>
    /\ UNCHANGED fcGhost
    /\ UNCHANGED drvVars

\* the for statement: another attempt, or fall out of the loop
BurstLoop ==
    /\ bpc = "loop"
    /\ IF RetryAgain(variant, bi)
       THEN /\ bpc' = "fc"
            /\ attempts' = attempts + 1
            /\ fc_sample' = "none"
            /\ fc_wakes' = 0
            /\ fc_wake_ok' = FALSE
            /\ fc_polls' = 0
            /\ fc_seen' = FALSE
            /\ last_end' = "none"
       ELSE /\ bpc' = "settle"
            /\ UNCHANGED <<attempts, last_end>>
            /\ UNCHANGED fcGhost
    /\ UNCHANGED <<variant, comms_mode, op, rem_len, bi, bret, fc_ret,
                   last_chance, xfers, first_word>>
    /\ UNCHANGED drvVars

\* force_comms up to its first decision: the iqs9150 switch on comms_mode,
\* then the first sample of the RDY line
ForceCommsEnter ==
    /\ bpc = "fc"
    /\ \/ /\ variant = "iqs9150" /\ comms_mode = "WAIT"
          /\ bpc' = "fc_poll"
          /\ UNCHANGED <<fc_ret, fc_sample>>
       \/ /\ variant = "iqs9150" /\ comms_mode = "FREE"
          /\ fc_ret' = 0
          /\ bpc' = "fc_ret"
          /\ UNCHANGED fc_sample
       \/ /\ variant = "iqs9150" => comms_mode = "FORCE"
          /\ \E s \in GpioSamples :
               /\ fc_sample' = (IF s < 0 THEN "err" ELSE IF s > 0 THEN "hi" ELSE "lo")
               /\ IF s < 0
                  THEN fc_ret' = s /\ bpc' = "fc_ret"
                  ELSE IF ReadyAsserted(s)
                       THEN fc_ret' = 0 /\ bpc' = "fc_ret"
                       ELSE fc_ret' = fc_ret /\ bpc' = "fc_wake"
    /\ last_chance' = FALSE
    /\ UNCHANGED <<variant, comms_mode, op, rem_len, bi, bret, attempts, xfers,
                   fc_wakes, fc_wake_ok, fc_polls, fc_seen, first_word, last_end>>
    /\ UNCHANGED drvVars

\* force_comms: i2c_master_send of the wake command
ForceCommsWake ==
    /\ bpc = "fc_wake"
    /\ \E r \in I2cResults(WakeLen(variant)) :
         /\ fc_wakes' = fc_wakes + 1
         /\ IF r < WakeLen(variant)
            THEN /\ fc_ret' = I2cError(r)
                 /\ fc_wake_ok' = FALSE
                 /\ bpc' = "fc_ret"
            ELSE /\ fc_ret' = fc_ret
                 /\ fc_wake_ok' = TRUE
                 /\ bpc' = "fc_poll"
    /\ UNCHANGED <<variant, comms_mode, op, rem_len, bi, bret, last_chance,
                   attempts, xfers, fc_sample, fc_polls, fc_seen, first_word,
                   last_end>>
    /\ UNCHANGED drvVars

\* a wait whose timeout never comes
PollExpiredNever(elapsed, n) == FALSE

\* the timeout of irq_poll has passed behind the n-th sample: the clock says
\* so, at the latest behind MaxPolls samples
PollExpired(elapsed, n) == elapsed \/ n >= MaxPolls

\* one RDY sample of irq_poll.  iqs7219: do { sample } while (now < timeout),
\* then -EBUSY.  iqs323/iqs9150: readx_poll_timeout, which samples once more
\* after the timeout has elapsed, then -ETIMEDOUT.
IrqPollSample ==
    /\ bpc = "fc_poll"
    /\ \E s \in GpioSamples, elapsed \in BOOLEAN :
         LET expired == PollExpired(elapsed, fc_polls + 1) IN
         /\ fc_polls' = fc_polls + 1
         /\ fc_seen' = (s > 0)
         /\ IF s # 0
            THEN /\ fc_ret' = (IF s < 0 THEN s ELSE 0)
                 /\ bpc' = "fc_ret"
                 /\ last_chance' = FALSE
            ELSE IF variant = "iqs7219"
                 THEN IF expired
                      THEN fc_ret' = -EBUSY /\ bpc' = "fc_ret" /\ last_chance' = FALSE
                      ELSE fc_ret' = fc_ret /\ bpc' = "fc_poll" /\ last_chance' = FALSE
                 ELSE IF last_chance
                      THEN fc_ret' = -ETIMEDOUT /\ bpc' = "fc_ret" /\ last_chance' = FALSE
                      ELSE fc_ret' = fc_ret /\ bpc' = "fc_poll" /\ last_chance' = expired
    /\ UNCHANGED <<variant, comms_mode, op, rem_len, bi, bret, attempts, xfers,
                   fc_sample, fc_wakes, fc_wake_ok, first_word, last_end>>
    /\ UNCHANGED drvVars

\* back in the retry loop: "ret = force_comms(); if (ret < 0) continue;"
BurstAfterForce ==
    /\ bpc = "fc_ret"
    /\ bret' = fc_ret
    /\ IF fc_ret < 0
       THEN bi' = bi + 1 /\ bpc' = "loop" /\ last_end' = "fc"
       ELSE bi' = bi /\ bpc' = "xfer" /\ last_end' = last_end
    /\ UNCHANGED <<variant, comms_mode, op, rem_len, fc_ret, last_chance,
                   attempts, xfers, first_word>>
    /\ UNCHANGED fcGhost
    /\ UNCHANGED drvVars

\* the bus transaction of one attempt: i2c_transfer of two messages for a
\* read (then the sentinel test), i2c_master_send of the message for a write
BurstTransfer ==
    /\ bpc = "xfer"
    /\ xfers' = xfers + 1
    /\ \E r \in I2cResults(2), w \in BusWords :
         IF r < 2
         THEN /\ bret' = I2cError(r)
              /\ bi' = bi + 1
              /\ bpc' = "loop"
              /\ last_end' = "bus"
              /\ UNCHANGED first_word
         ELSE IF op = "read" /\ IsCommsError(variant, w)
              THEN /\ bret' = -ENODATA
                   /\ first_word' = w
                   /\ bi' = bi + 1
                   /\ bpc' = "loop"
                   /\ last_end' = "sentinel"
              ELSE /\ bret' = 0
                   /\ first_word' = (IF op = "read" THEN w ELSE first_word)
                   /\ last_end' = "ok"
                   /\ bi' = bi
                   /\ bpc' = "settle"
    /\ UNCHANGED <<variant, comms_mode, op, rem_len, fc_ret, last_chance,
                   attempts>>
    /\ UNCHANGED fcGhost
    /\ UNCHANGED drvVars

\* the delay after the loop; the function returns ret
BurstSettle ==
    /\ bpc = "settle"
    /\ bpc' = "wrap_ret"
    /\ UNCHANGED <<variant, comms_mode, op, rem_len, bi, bret, fc_ret,
                   last_chance, attempts, xfers, first_word, last_end>>
    /\ UNCHANGED fcGhost
    /\ UNCHANGED drvVars

\* the caller of the primitive: the iqs9150 wrappers loop over chunks of at
\* most IQS9150_MAX_LEN bytes; the other drivers call the primitive directly
BurstReturn ==
    /\ bpc = "wrap_ret"
    /\ IF variant = "iqs9150" /\ bret = 0
          /\ rem_len - Min(rem_len, IQS9150_MAX_LEN) > 0
       THEN /\ rem_len' = rem_len - Min(rem_len, IQS9150_MAX_LEN)
            /\ bpc' = "call"
       ELSE /\ rem_len' = (IF variant = "iqs9150" /\ bret = 0
                           THEN rem_len - Min(rem_len, IQS9150_MAX_LEN)
                           ELSE rem_len)
            /\ bpc' = "done"
    /\ UNCHANGED <<variant, comms_mode, op, bi, bret, fc_ret, last_chance,
                   attempts, xfers, first_word, last_end>>
    /\ UNCHANGED fcGhost
    /\ UNCHANGED drvVars

BusNext ==
    \/ BurstEnter
    \/ BurstLoop
    \/ ForceCommsEnter
    \/ ForceCommsWake
    \/ IrqPollSample
    \/ BurstAfterForce
    \/ BurstTransfer
    \/ BurstSettle
    \/ BurstReturn


(* ------------------------------------------------------------------ *)
(* Claims about the bus transport (checked under SpecBus)              *)
(* ------------------------------------------------------------------ *)
BurstReturned == bpc \in {"settle", "wrap_ret", "done"}

\* the iqs7219 and iqs323 force_comms, and the iqs9150 one in forced mode
ForcedHandshake == variant = "iqs9150" => comms_mode = "FORCE"

\* C1: one burst read or write makes at most 5 attempts; a bus transaction
\* is made only after force_comms succeeded; the call returns 0 as soon as
\* an attempt succeeds (bi attempts failed before it, also when bi = 4) and
\* returns an error after exactly 5 failed attempts, never a 6th (a write
\* whose message cannot be allocated makes no attempt at all).
C1_RetryCeiling ==
    /\ attempts <= 5
    /\ xfers <= attempts
    /\ bpc = "xfer" => fc_ret = 0
    /\ bpc = "loop" => attempts = bi
    /\ BurstReturned /\ bret = 0 => last_end = "ok" /\ attempts = bi + 1
    /\ BurstReturned /\ last_end = "ok" => bret = 0
    /\ BurstReturned /\ bret # 0 =>
         \/ attempts = 5 /\ bi = 5 /\ bret < 0
         \/ op = "write" /\ bret = -ENOMEM /\ attempts = 0

\* C1 witness: the first four attempts failed and the fifth succeeded
C1_Witness == bpc = "done" /\ bret = 0 /\ attempts = 5 /\ bi = 4

\* C2: a burst read never returns 0 for an attempt whose first word is
\* 0xEEEE: such an attempt counts as failed (i is advanced and the loop
\* retries), and when it was the fifth attempt the call returns -ENODATA.
C2_SentinelIsFailure ==
    op = "read" =>
        /\ BurstReturned /\ bret = 0 => first_word # 61166 /\ last_end = "ok"
        /\ last_end = "sentinel" => first_word = 61166 /\ bret = -ENODATA
        /\ last_end = "sentinel" /\ bpc = "loop" => bi = attempts
        /\ BurstReturned /\ last_end = "sentinel" => attempts = 5 /\ bret = -ENODATA

\* C2 witness: a read whose fifth attempt returned the sentinel
C2_Witness ==
    /\ op = "read" /\ bpc = "done" /\ last_end = "sentinel"
    /\ attempts = 5 /\ bret = -ENODATA

\* C3: force_comms passes the wake command to the bus only after sampling
\* RDY deasserted, and at most once; with RDY asserted it returns 0 with no
\* bus traffic and no poll; after a wake command it returns 0 exactly when
\* irq_poll saw RDY asserted before its timeout; when the wake command does
\* not go out it returns an error without polling.
C3_ForceComms ==
    ForcedHandshake =>
        /\ fc_wakes <= 1
        /\ fc_wakes = 1 => fc_sample = "lo"
        /\ bpc = "fc_poll" => fc_wake_ok /\ fc_polls <= MaxPolls + 1
        /\ bpc = "fc_ret" =>
             /\ fc_sample \in {"err", "hi", "lo"}
             /\ fc_sample = "hi" => fc_ret = 0 /\ fc_wakes = 0 /\ fc_polls = 0
             /\ fc_sample = "err" => fc_ret < 0 /\ fc_wakes = 0 /\ fc_polls = 0
             /\ fc_sample = "lo" => fc_wakes = 1
             /\ fc_sample = "lo" => (fc_ret = 0 <=> (fc_wake_ok /\ fc_seen))
             /\ fc_sample = "lo" /\ ~fc_wake_ok => fc_ret < 0 /\ fc_polls = 0

\* C3 witness: RDY was low, the wake command went out, the poll saw RDY
C3_Witness ==
    /\ variant = "iqs323" /\ bpc = "fc_ret" /\ fc_sample = "lo"
    /\ fc_wakes = 1 /\ fc_wake_ok /\ fc_seen /\ fc_polls = 2 /\ fc_ret = 0

(* ================================================================== *)
(* Device synchronisation and status decode                            *)
(*                                                                     *)
(* Above the transport a burst is one step whose outcome the chip      *)
(* decides: 0 with the words read, or the error the retry loop ends    *)
(* with.  The drivers call each other (report -> dev_init -> ATI);     *)
(* `stack` holds the return positions.                                 *)
(* ================================================================== *)

\* register bits, iqs7219
IQS7219_SYS_STATUS_RESET == 2048
IQS7219_SYS_STATUS_ATI_ERROR == 512
IQS7219_SYS_STATUS_ATI_ACTIVE == 256
IQS7219_SYS_SETUP_INTF_MODE_MASK == 192
IQS7219_SYS_SETUP_INTF_MODE_STAND == 128
IQS7219_SYS_SETUP_INTF_MODE_EVENT == 64
IQS7219_SYS_SETUP_PWR_MODE_MASK == 48
IQS7219_SYS_SETUP_REDO_ATI == 4
IQS7219_SYS_SETUP_ACK_RESET == 1
IQS7219_EVENT_MASK_ALL == 31
IQS7219_EVENT_MASK_ATI == 8
IQS7219_COMMS_SETUP == 141
IQS7219_COMMS_HOLD == 256
IQS7219_NUM_REG_GRPS == 8
IQS7219_NUM_CHAN == 2
IQS7219_NUM_SCAN == 6
IQS7219_NUM_PXS_EVENTS == 3

\* register bits and enumerations, iqs323
IQS323_SYS_STATUS_RESET == 128
IQS323_SYS_STATUS_ATI_ERROR == 64
IQS323_SYS_STATUS_ATI_ACTIVE == 32
IQS323_SYS_SETUP_EVENT_MODE == 128
IQS323_SYS_SETUP_POWER_MODE_MASK == 112
IQS323_SYS_SETUP_POWER_MODE_SHIFT == 4
IQS323_SYS_SETUP_REDO_ATI == 4
IQS323_SYS_SETUP_ACK_RESET == 1
IQS323_EVENT_MASK_TOUCH == 2
IQS323_EVENT_MASK_PROX == 1
IQS323_SLDR_STATUS_BUSY == 128
IQS323_SLDR_STATUS_EVENT == 64
IQS323_INTF_MODE_ERROR == 0
IQS323_INTF_MODE_EVENT == 1
IQS323_INTF_MODE_STREAM == 2
IQS323_POWER_MODE_USER == 6
IQS323_NUM_CHAN == 3
IQS323_NUM_REG_GRPS == 9

\* register bits, iqs9150
IQS9150_CONTROL_ACK_RESET == 128
IQS9150_CONTROL_ATI_ALP == 64
IQS9150_CONTROL_ATI_TP == 32

\* status polls one iqs7219 ATI attempt makes before its 2 s window has elapsed
MaxAtiPolls == 3

\* the transport is not running while the driver layer is explored
BusIdleIn(v, m) ==
    /\ variant = v
    /\ comms_mode = m
    /\ op = "read"
    /\ rem_len = 0
    /\ bpc = "done"
    /\ bi = 0
    /\ bret = 0
    /\ fc_ret = 0
    /\ last_chance = FALSE
    /\ attempts = 0
    /\ xfers = 0
    /\ fc_sample = "none"
    /\ fc_wakes = 0
    /\ fc_wake_ok = FALSE
    /\ fc_polls = 0
    /\ fc_seen = FALSE
    /\ first_word = 0
    /\ last_end = "none"

\* errors a burst read / write ends with once its retries are exhausted
ReadErrors == {-EIO, -ENODATA}
WriteErrors == {-EIO}
ReadResults == {0} \cup ReadErrors
WriteResults == {0} \cup WriteErrors

\* what irq_poll returns: 0, the timeout, or the GPIO's own error
PollResults7219 == {0, -EBUSY, -EINVAL}
PollResults323 == {0, -ETIMEDOUT, -EINVAL}

\* one entry of wlog: kind, register group, word written / read, result
Access(k, g, v, e) == [k |-> k, g |-> g, v |-> v, e |-> e]

\* the running function returns `e` to its caller
Return(e) ==
    /\ error' = e
    /\ IF stack = <<>>
       THEN pc' = "idle" /\ stack' = stack
       ELSE pc' = Head(stack) /\ stack' = Tail(stack)

\* the running function calls the one starting at `to`, returning to `back`
Call(to, back) ==
    /\ pc' = to
    /\ stack' = <<back>> \o stack

\* dev_init / init_device is entered with direction `d`
InitEnter(d) ==
    /\ dir' = d
    /\ grp' = 0
    /\ row' = 0
    /\ init_state' = "running"
    /\ init_err' = 0

\* no dev_init belongs to the current top-level call yet
InitFresh ==
    /\ dir' = "READ"
    /\ grp' = 0
    /\ row' = 0
    /\ init_state' = "idle"
    /\ init_err' = 0

\* dev_init / init_device returns `e`
InitReturn(e) ==
    /\ init_state' = "returned"
    /\ init_err' = e
    /\ Return(e)

\* no ATI trigger belongs to the current top-level call yet
AtiFresh ==
    /\ ati_i' = 0
    /\ ati_n' = 0
    /\ sys_setup' = 0
    /\ sys_status' = -1
    /\ aan' = 0
    /\ err_only' = TRUE
    /\ redo_writes' = 0
    /\ ati_state' = "idle"
    /\ ati_err' = 0

\* the ATI trigger returns `e`
AtiReturn(e) ==
    /\ ati_state' = "returned"
    /\ ati_err' = e
    /\ Return(e)

\* no channel has been read
NoScan == [lta |-> 0, counts |-> 0, delta |-> 0]

\* 16-bit words the chip may report as counts or as long-term average
Readings == {0, 100, 150, 32768, U16_MAX}

\* the transport is not running; the iqs9150 is in forced communication
BusIdle(v) == BusIdleIn(v, "FORCE")

\* no status block of the iqs9150 has been read
NoStatus == [f0 |-> 0, f1 |-> 0, gx |-> 0, gy |-> 0]

\* the outputs of a new top-level call
PassFresh(v) ==
    /\ val_req' = v
    /\ check_ok' = TRUE
    /\ sys_flags' = 0
    /\ new_flags' = 0
    /\ events' = <<>>
    /\ val_out' = FALSE
    /\ scan' = NoScan
    /\ trig_pending' = FALSE
    /\ trig_polled' = FALSE
    /\ pxs_before' = pxs_flags
    /\ mode_before' = comms_mode
    /\ status' = NoStatus
    /\ branch' = "none"
    /\ acted' = "none"

DrvInitCommonAt(p) ==
    /\ pc = p
    /\ stack = <<>>
    /\ error = 0
    /\ dir = "READ"
    /\ grp = 0
    /\ row = 0
    /\ init_state = "idle"
    /\ init_err = 0
    /\ wlog = <<>>
    /\ ati_i = 0
    /\ ati_n = 0
    /\ sys_setup = 0
    /\ sys_status = -1
    /\ aan = 0
    /\ err_only = TRUE
    /\ redo_writes = 0
    /\ ati_state = "idle"
    /\ ati_err = 0
    /\ mode_owed = FALSE
    /\ pxs_flags = 0
    /\ silent = [c \in 0..1 |-> FALSE]
    /\ val_req = FALSE
    /\ check_ok = TRUE
    /\ sys_flags = 0
    /\ new_flags = 0
    /\ events = <<>>
    /\ val_out = FALSE
    /\ scan = NoScan
    /\ trig_pending = FALSE
    /\ trig_polled = FALSE
    /\ pxs_before = 0
    /\ mode_before = "none"
    /\ status = NoStatus
    /\ branch = "none"
    /\ acted = "none"

\* the driver at rest, ready to be called
DrvInitCommon == DrvInitCommonAt("idle")

\* parse_props is not running and has not run
\* the contexts the model runs callbacks in: the interrupt thread and two
\* callers of the command path
Contexts == {"irq", "a", "b"}

\* a context that runs nothing
CtxIdle == [op |-> "idle", path |-> <<>>, i |-> 0, dis |-> 0, bare |-> {}]

\* no callback runs, the mutex is free and the interrupt is enabled
CtxParked ==
    /\ ctx = [t \in Contexts |-> CtxIdle]
    /\ lock = "none"
    /\ irq_depth = 0
    /\ onbus = {}
    /\ mutating = {}

\* probe has not been called
ProbeIdle == [pc |-> "idle", i |-> 0, calls |-> <<>>, ret |-> 0]

\* no sleep transition runs
PmIdle == [pc |-> "idle", mode |-> "none", i |-> 0, error |-> 0, calls |-> <<>>,
           ret |-> 0]

\* the scan multiplexer of the channel as the allocation leaves it
MuxIdle == [sel |-> <<0, 0>>, src |-> <<"alloc", "alloc">>, n |-> 0,
            from |-> "none", ret |-> 0, oob |-> FALSE, data |-> <<0, 0>>]

\* dev_init(READ) has not been called: the register image is as the
\* allocation left it
MirrorIdle == [pc |-> "idle", v |-> "none", i |-> 0, img |-> <<>>, was |-> <<>>,
               buf |-> 0, read |-> {}, ret |-> 0]

\* the threads that may run the callbacks of the iqs7219: the interrupt
\* thread and two callers
Threads7219 == {"irq", "cmd", "aux"}

\* a thread that runs nothing
ThreadIdle == [pc |-> "idle", job |-> "none", err |-> 0, pend |-> FALSE,
               bp |-> FALSE, sample |-> 0]

\* no thread runs; scan_data and timestamp are as the allocation left them
SchedIdle == [own |-> TRUE, mtx |-> "none", depth |-> 0, n |-> 0,
              scan_data |-> 0, timestamp |-> 0, trig_valid |-> FALSE,
              pushed |-> [d |-> 0, t |-> 0, n |-> 0],
              th |-> [t \in Threads7219 |-> ThreadIdle]]

\* iqs323_parse_all has not been called
PwrIdle == [pc |-> "idle", prod |-> 0, setup0 |-> 0, was |-> 0, gen2 |-> 0,
            mov |-> {}, ret |-> 0]

\* iqs7219_write_rate has not been called; the report period is the one
\* dev_init(READ) found
RateIdle == [pc |-> "idle", val |-> 0, val2 |-> 0, ms |-> 0, reg |-> 16,
             setup5 |-> 16, ret |-> 0]

SideParked ==
    /\ mirror = MirrorIdle
    /\ sched = SchedIdle
    /\ pwr = PwrIdle
    /\ rate = RateIdle

ExtParkedAt(q) ==
    /\ CtxParked
    /\ probe = ProbeIdle
    /\ pm = [PmIdle EXCEPT !.pc = q]
    /\ mux = MuxIdle
    /\ comms_reg = -1
    /\ SideParked

\* no callback, probe or sleep transition has run
ExtParked == ExtParkedAt("idle")

PropsParked ==
    /\ pp_call = [grp |-> "none", key |-> "none", index |-> 0, node |-> FALSE]
    /\ fw = <<>>
    /\ pp_setup = <<>>
    /\ pp_i = 0
    /\ images = <<>>
    /\ rets = <<>>

\* the status word `w` is matched against [active, active, neither];
\* `active` and `err` are the two ATI flags of `w`
Remember(active, err) ==
    aan' = CASE aan \in {0, 1} /\ active /\ ~err -> aan + 1
             [] aan = 2 /\ ~active /\ ~err -> 3
             [] OTHER -> -1

(* ------------------------------------------------------------------ *)
(* iqs7219                                                             *)
(* ------------------------------------------------------------------ *)
\* what the chip may hold in SYS_SETUP: both interface-mode bits, both
\* power-mode bits and the reset acknowledge, without and with the redo bit
SetupWords7219 == {241, 245}

\* status words: none, active, error, error+active, reset, reset+error+active
StatusWords7219 == {0, 256, 512, 768, 2048, 2816}

\* proximity flag words: channel 0 in bits 0..3, channel 1 in bits 4..7
PxsWords == {0, 2, 34}

\* configurations parse_all and probe may leave behind: streaming without
\* the communication setup register, event mode with it, stand-alone mode
Configs7219 ==
    { [intf |-> 0, setup |-> 0, comms |-> 0, trig |-> TRUE],
      [intf |-> IQS7219_SYS_SETUP_INTF_MODE_EVENT, setup |-> 245,
       comms |-> IQS7219_COMMS_SETUP, trig |-> FALSE],
      [intf |-> IQS7219_SYS_SETUP_INTF_MODE_STAND, setup |-> 0,
       comms |-> IQS7219_COMMS_SETUP, trig |-> FALSE] }

Init7219At(q) ==
    /\ PropsParked
    /\ ExtParkedAt(q)
    /\ BusIdle("iqs7219")
    /\ DrvInitCommon
    /\ \E c \in Configs7219 :
         /\ intf_mode = c.intf
         /\ sys_setup0 = c.setup
         /\ comms_setup = c.comms
         /\ trig_enable = c.trig
    /\ event_mask = (0 :> 3 @@ 1 :> 6)
    /\ event_enable = (0 :> TRUE @@ 1 :> FALSE)
    /\ sl_enable = FALSE
    /\ eng_word = 0
    /\ kp_type = {}

\* the iqs7219 after construction
Init7219 == Init7219At("idle")

\* iqs7219_probe: dev_init(READ) or dev_init(WRITE)
DevInitCall7219 ==
    /\ variant = "iqs7219"
    /\ pc = "idle"
    /\ \E d \in {"READ", "WRITE"} : InitEnter(d)
    /\ pc' = "di_ack"
    /\ wlog' = <<>>
    /\ error' = 0
    /\ AtiFresh
    /\ PassFresh(FALSE)
    /\ UNCHANGED <<stack, devVars, cfgVars>>
    /\ UNCHANGED <<busVars, propVars, extVars>>

\* dev_init: the reset acknowledge, written first when dir == WRITE
DevInitAck7219 ==
    /\ pc = "di_ack"
    /\ IF dir = "WRITE"
       THEN \E e \in WriteResults :
              /\ wlog' = Append(wlog, Access("ack", -1,
                            BitOr(sys_setup0, IQS7219_SYS_SETUP_ACK_RESET), e))
              /\ IF e # 0
                 THEN InitReturn(e)
                 ELSE /\ pc' = "di_hold"
                      /\ UNCHANGED <<stack, error, init_state, init_err>>
       ELSE /\ pc' = "di_hold"
            /\ UNCHANGED <<stack, error, init_state, init_err, wlog>>
    /\ UNCHANGED <<dir, grp, row, atiVars, devVars, cfgVars, passVars>>
    /\ UNCHANGED <<busVars, propVars, extVars>>

\* iqs7219_write_comms called from dev_init: nothing without the register;
\* else read the register, clear HOLD and the event mask, OR in the
\* argument and write it back
WriteComms7219(kind, mask, next) ==
    IF comms_setup = 0
    THEN /\ pc' = next
         /\ UNCHANGED <<stack, error, init_state, init_err, wlog, comms_reg>>
    ELSE \E er \in ReadResults, ew \in WriteResults, val \in {0, 287} :
           LET rd == Access("comms_rd", -1, -1, er)
               wr == Access(kind, -1,
                            BitOr(BitClear(val, BitOr(IQS7219_COMMS_HOLD,
                                                       IQS7219_EVENT_MASK_ALL)),
                                  mask), ew)
           IN IF er # 0
              THEN /\ wlog' = Append(wlog, rd)
                   /\ InitReturn(er)
                   /\ UNCHANGED comms_reg
              ELSE /\ wlog' = wlog \o <<rd, wr>>
                   /\ comms_reg' = (IF ew = 0 THEN wr.v ELSE comms_reg)
                   /\ IF ew # 0
                      THEN InitReturn(ew)
                      ELSE /\ pc' = next
                           /\ UNCHANGED <<stack, error, init_state, init_err>>

\* dev_init: write_comms(IQS7219_COMMS_HOLD) ahead of the group loop
DevInitHold7219 ==
    /\ pc = "di_hold"
    /\ WriteComms7219("hold", IQS7219_COMMS_HOLD, "di_grp")
    /\ UNCHANGED <<dir, grp, row, atiVars, devVars, cfgVars, passVars>>
    /\ UNCHANGED <<busVars, propVars, ctxVars, sideVars, probe, pm,
                   mux>>

GroupsDoneEarly7219(g) == g >= IQS7219_NUM_REG_GRPS - 1

\* the end of "for (i = 0; i < IQS7219_NUM_REG_GRPS; i++)"
GroupsDone7219(g) == g >= IQS7219_NUM_REG_GRPS

\* dev_init: one pass of the loop over the register groups; kcalloc may
\* fail before anything is put on the bus
DevInitGroup7219 ==
    /\ pc = "di_grp"
    /\ IF ~GroupsDone7219(grp)
       THEN \/ /\ InitReturn(-ENOMEM)
               /\ UNCHANGED <<wlog, grp>>
            \/ \E e \in (IF dir = "READ" THEN ReadResults ELSE WriteResults) :
                 /\ wlog' = Append(wlog, Access("grp", grp, -1, e))
                 /\ IF e # 0
                    THEN InitReturn(e) /\ grp' = grp
                    ELSE /\ grp' = grp + 1
                         /\ UNCHANGED <<pc, stack, error, init_state, init_err>>
       ELSE /\ pc' = "di_mask"
            /\ UNCHANGED <<stack, error, init_state, init_err, wlog, grp>>
    /\ UNCHANGED <<dir, row, atiVars, devVars, cfgVars, passVars>>
    /\ UNCHANGED <<busVars, propVars, extVars>>

\* the event mask dev_init programs: ATI, and each channel whose events or
\* the trigger are enabled
InitEventMask7219 ==
    LET add(i, m) == IF trig_enable \/ event_enable[i]
                     THEN BitOr(m, event_mask[i]) ELSE m
    IN add(1, add(0, IQS7219_EVENT_MASK_ATI))

\* dev_init: write_comms(event_mask) after the group loop
DevInitMask7219 ==
    /\ pc = "di_mask"
    /\ WriteComms7219("mask", InitEventMask7219, "di_tail")
    /\ UNCHANGED <<dir, grp, row, atiVars, devVars, cfgVars, passVars>>
    /\ UNCHANGED <<busVars, propVars, ctxVars, sideVars, probe, pm,
                   mux>>

\* dev_init: return 0 after a READ, else call the ATI trigger
DevInitTail7219 ==
    /\ pc = "di_tail"
    /\ IF dir = "READ"
       THEN InitReturn(0)
       ELSE /\ Call("ati_rd", "di_ret")
            /\ UNCHANGED <<error, init_state, init_err>>
    /\ UNCHANGED <<dir, grp, row, wlog, atiVars, devVars, cfgVars, passVars>>
    /\ UNCHANGED <<busVars, propVars, extVars>>

\* dev_init: "return iqs7219_ati_trigger(iqs7219);"
DevInitRet7219 ==
    /\ pc = "di_ret"
    /\ InitReturn(error)
    /\ UNCHANGED <<dir, grp, row, wlog, atiVars, devVars, cfgVars, passVars>>
    /\ UNCHANGED <<busVars, propVars, extVars>>

\* iqs7219_ati_trigger: read SYS_SETUP, clear the interface-mode bits
AtiRead7219 ==
    /\ pc = "ati_rd"
    /\ \E e \in ReadResults, v \in SetupWords7219 :
         /\ wlog' = Append(wlog, Access("setup_rd", -1, v, e))
         /\ IF e # 0
            THEN AtiReturn(e) /\ sys_setup' = sys_setup
            ELSE /\ sys_setup' = BitClear(v, IQS7219_SYS_SETUP_INTF_MODE_MASK)
                 /\ ati_state' = "running"
                 /\ pc' = "ati_loop"
                 /\ UNCHANGED <<stack, error, ati_err>>
    /\ UNCHANGED <<ati_i, ati_n, sys_status, aan, err_only, redo_writes>>
    /\ UNCHANGED <<initVars, devVars, cfgVars, passVars>>
    /\ UNCHANGED <<busVars, propVars, extVars>>

AtiRetryAgainShort7219(i) == i < IQS7219_NUM_RETRIES - 1

\* for (i = 0; i < IQS7219_NUM_RETRIES; i++)
AtiRetryAgain7219(i) == i < IQS7219_NUM_RETRIES

\* iqs7219_ati_trigger: the for statement; -ETIMEDOUT once it runs out
AtiLoop7219 ==
    /\ pc = "ati_loop"
    /\ IF AtiRetryAgain7219(ati_i)
       THEN pc' = "ati_redo" /\ UNCHANGED <<stack, error, ati_state, ati_err>>
       ELSE AtiReturn(-ETIMEDOUT)
    /\ UNCHANGED <<ati_i, ati_n, sys_setup, sys_status, aan, err_only,
                   redo_writes>>
    /\ UNCHANGED <<initVars, wlog, devVars, cfgVars, passVars>>
    /\ UNCHANGED <<busVars, propVars, extVars>>

RedoValueKeepPower7219(setup) == BitOr(setup, IQS7219_SYS_SETUP_REDO_ATI)

\* (sys_setup & ~IQS7219_SYS_SETUP_PWR_MODE_MASK) | IQS7219_SYS_SETUP_REDO_ATI
RedoValue7219(setup) ==
    BitOr(BitClear(setup, IQS7219_SYS_SETUP_PWR_MODE_MASK),
          IQS7219_SYS_SETUP_REDO_ATI)

\* iqs7219_ati_trigger: write the redo-ATI command, start the 2 s window
AtiRedo7219 ==
    /\ pc = "ati_redo"
    /\ redo_writes' = redo_writes + 1
    /\ ati_n' = 0
    /\ \E e \in WriteResults :
         /\ wlog' = Append(wlog, Access("redo", -1, RedoValue7219(sys_setup), e))
         /\ IF e # 0
            THEN AtiReturn(e)
            ELSE pc' = "ati_poll" /\ UNCHANGED <<stack, error, ati_state, ati_err>>
    /\ UNCHANGED <<ati_i, sys_setup, sys_status, aan, err_only>>
    /\ UNCHANGED <<initVars, devVars, cfgVars, passVars>>
    /\ UNCHANGED <<busVars, propVars, extVars>>

\* iqs7219_ati_trigger: irq_poll inside the do-while; an error is a continue
AtiPoll7219 ==
    /\ pc = "ati_poll"
    /\ ati_n' = ati_n + 1
    /\ \E r \in PollResults7219 :
         pc' = (IF r # 0 THEN "ati_cond" ELSE "ati_status")
    /\ UNCHANGED <<ati_i, sys_setup, sys_status, aan, err_only, redo_writes,
                   ati_state, ati_err>>
    /\ UNCHANGED <<stack, error, initVars, wlog, devVars, cfgVars, passVars>>
    /\ UNCHANGED <<busVars, propVars, extVars>>

RestoreValueForgotten7219(setup, mode) == setup

\* sys_setup |= iqs7219->intf_mode
RestoreValue7219(setup, mode) == BitOr(setup, mode)

\* iqs7219_ati_trigger: read the status; still active: continue; error:
\* break; neither: write the configured interface mode and return
AtiStatus7219 ==
    /\ pc = "ati_status"
    /\ \E e \in ReadResults, w \in StatusWords7219 :
         IF e # 0
         THEN /\ AtiReturn(e)
              /\ UNCHANGED <<ati_i, sys_setup, aan, err_only, wlog>>
         ELSE /\ Remember(Test(w, IQS7219_SYS_STATUS_ATI_ACTIVE),
                          Test(w, IQS7219_SYS_STATUS_ATI_ERROR))
              /\ IF Test(w, IQS7219_SYS_STATUS_ATI_ACTIVE)
                 THEN /\ pc' = "ati_cond"
                      /\ UNCHANGED <<stack, error, ati_state, ati_err, ati_i,
                                     sys_setup, err_only, wlog>>
                 ELSE IF Test(w, IQS7219_SYS_STATUS_ATI_ERROR)
                      THEN /\ pc' = "ati_loop"
                           /\ ati_i' = ati_i + 1
                           /\ UNCHANGED <<stack, error, ati_state, ati_err,
                                          sys_setup, err_only, wlog>>
                      ELSE /\ sys_setup' = RestoreValue7219(sys_setup, intf_mode)
                           /\ \E ew \in WriteResults :
                                /\ wlog' = Append(wlog,
                                       Access("restore", -1,
                                              RestoreValue7219(sys_setup, intf_mode), ew))
                                /\ AtiReturn(ew)
                           /\ UNCHANGED <<ati_i, err_only>>
    /\ UNCHANGED <<ati_n, sys_status, redo_writes>>
    /\ UNCHANGED <<initVars, devVars, cfgVars, passVars>>
    /\ UNCHANGED <<busVars, propVars, extVars>>

\* the window that elapsed is not counted as an attempt
AttemptsAfterWindowKept7219(i) == i

\* the do-while falls through to dev_err and to the i++ of the for statement
AttemptsAfterWindow7219(i) == i + 1

\* iqs7219_ati_trigger: while (ktime_compare(ktime_get(), ati_timeout) < 0);
\* once the window has elapsed the attempt has failed
AtiCond7219 ==
    /\ pc = "ati_cond"
    /\ \E elapsed \in BOOLEAN :
         IF elapsed \/ ati_n >= MaxAtiPolls
         THEN /\ pc' = "ati_loop"
              /\ ati_i' = AttemptsAfterWindow7219(ati_i)
              /\ err_only' = FALSE
         ELSE pc' = "ati_poll" /\ UNCHANGED <<ati_i, err_only>>
    /\ UNCHANGED <<ati_n, sys_setup, sys_status, aan, redo_writes, ati_state,
                   ati_err>>
    /\ UNCHANGED <<stack, error, initVars, wlog, devVars, cfgVars, passVars>>
    /\ UNCHANGED <<busVars, propVars, extVars>>

\* iqs7219_irq (val == NULL) or a read of a channel (val != NULL): the
\* interrupt is only registered when the device is not in stand-alone mode
ReportCall7219 ==
    /\ variant = "iqs7219"
    /\ pc = "idle"
    /\ intf_mode # IQS7219_SYS_SETUP_INTF_MODE_STAND
    /\ \E v \in BOOLEAN : PassFresh(v)
    /\ pc' = "rs_read"
    /\ error' = 0
    /\ wlog' = <<>>
    /\ InitFresh
    /\ AtiFresh
    /\ UNCHANGED <<stack, devVars, cfgVars>>
    /\ UNCHANGED <<busVars, propVars, extVars>>

\* report_sync: take the lock, burst-read the status block
ReportRead7219 ==
    /\ pc = "rs_read"
    /\ lock = "none"
    /\ lock' = "pass"
    /\ \E e \in ReadResults, sf \in StatusWords7219 :
         IF e # 0
         THEN /\ error' = e
              /\ pc' = "rs_out"
              /\ UNCHANGED sys_flags
         ELSE /\ error' = 0
              /\ sys_flags' = sf
              /\ pc' = "rs_decode"
    /\ UNCHANGED <<val_req, check_ok, new_flags, events, val_out, scan, trig_pending,
                   trig_polled, pxs_before, mode_before, status, branch, acted>>
    /\ UNCHANGED <<stack, initVars, wlog, atiVars, devVars, cfgVars>>
    /\ UNCHANGED <<busVars, propVars, ctxRest, extRest>>

DecodeBranchErrorFirst7219(sf) ==
    IF Test(sf, IQS7219_SYS_STATUS_ATI_ERROR) THEN "ati_error"
    ELSE IF Test(sf, IQS7219_SYS_STATUS_RESET) THEN "reset"
    ELSE IF Test(sf, IQS7219_SYS_STATUS_ATI_ACTIVE) THEN "ati_active"
    ELSE "normal"

\* report_sync: the tests on sys_flags, in the order of the source
DecodeBranch7219(sf) ==
    IF Test(sf, IQS7219_SYS_STATUS_RESET) THEN "reset"
    ELSE IF Test(sf, IQS7219_SYS_STATUS_ATI_ERROR) THEN "ati_error"
    ELSE IF Test(sf, IQS7219_SYS_STATUS_ATI_ACTIVE) THEN "ati_active"
    ELSE "normal"

\* (iqs7219->event_mask[i] & BIT(j)) << i * 4
EventBit7219(i, j) == BitAnd(event_mask[i], BIT(j)) * Pow2(i * 4)

EventChangedLevel7219(i, j, new, old) == BitAnd(new, EventBit7219(i, j)) # 0

\* event_state ^ event_cache is not zero
EventChanged7219(i, j, new, old) ==
    BitAnd(new, EventBit7219(i, j)) # BitAnd(old, EventBit7219(i, j))

\* the (channel, event) pairs in the order the loops visit them
EventPairs7219 ==
    <<<<0, 0>>, <<0, 1>>, <<0, 2>>, <<1, 0>>, <<1, 1>>, <<1, 2>>>>

\* the events iio_push_event is called with, in order
PushedEvents7219(new, old) ==
    LET hit(p) == EventChanged7219(p[1], p[2], new, old) /\ event_enable[p[1]]
        sel == SelectSeq(EventPairs7219, hit)
    IN [k \in 1..Len(sel) |->
          [chan |-> sel[k][1],
           dir |-> IF BitAnd(new, EventBit7219(sel[k][1], sel[k][2])) # 0
                   THEN "RISING" ELSE "FALLING"]]

\* trig_valid[i] once channel i has been decoded
TrigValid7219(i, new, old) ==
    \/ intf_mode = 0 /\ trig_enable
    \/ /\ trig_enable
       /\ \E j \in 0..(IQS7219_NUM_PXS_EVENTS - 1) : EventChanged7219(i, j, new, old)

\* pxs_flags >> i * 4 & GENMASK(3, 0)
ChanFlags7219(w, i) == (w \div Pow2(i * 4)) % 16

\* the words of the channel whose value the caller asked for; no channel
\* is looked at when no value is asked for
ReadingsFor(v) == IF v THEN Readings ELSE {0}

ScanDeltaSigned7219(l, f) == l - f

\* scan[IQS7219_SCAN_DELTA] = max(scan[LTA] - scan[FILT], 0), in int; the one
\* caller that passes val asks for IQS7219_SCAN_DELTA
ScanDelta7219(l, f) == IF l - f > 0 THEN l - f ELSE 0

CachedFlagsEnabledOnly7219(pf) ==
    LET keep(c) == IF event_enable[c] THEN ChanFlags7219(pf, c)
                   ELSE ChanFlags7219(pxs_flags, c)
    IN keep(0) + 16 * keep(1)

\* "iqs7219->pxs_flags = pxs_flags;": the whole word read from the chip
CachedFlags7219(pf) == pf

\* report_sync: act on the status word.  The proximity flags word of the
\* block is the chip's choice; it is drawn where the pass first uses it.
ReportDecode7219 ==
    /\ pc = "rs_decode"
    /\ branch' = DecodeBranch7219(sys_flags)
    /\ CASE DecodeBranch7219(sys_flags) = "reset" ->
              /\ acted' = "init"
              /\ InitEnter("WRITE")
              /\ Call("di_ack", "rs_recovered")
              /\ UNCHANGED <<error, new_flags, events, val_out, scan, trig_pending,
                             pxs_flags, silent>>
         [] DecodeBranch7219(sys_flags) = "ati_error" ->
              /\ acted' = "ati"
              /\ Call("ati_rd", "rs_recovered")
              /\ UNCHANGED <<error, initVars, new_flags, events, val_out, scan,
                             trig_pending, pxs_flags, silent>>
         [] DecodeBranch7219(sys_flags) = "ati_active" ->
              /\ error' = (IF val_req THEN -EAGAIN ELSE error)
              /\ pc' = "rs_out"
              /\ UNCHANGED <<acted, stack, initVars, new_flags, events,
                             val_out, scan, trig_pending, pxs_flags, silent>>
         [] OTHER ->
              \E pf \in PxsWords, l \in ReadingsFor(val_req),
                 f \in ReadingsFor(val_req) :
                /\ new_flags' = pf
                /\ events' = PushedEvents7219(pf, pxs_flags)
                /\ val_out' = val_req
                /\ scan' = IF val_req
                           THEN [lta |-> l, counts |-> f,
                                 delta |-> ScanDelta7219(l, f)]
                           ELSE NoScan
                /\ trig_pending' = (\E i \in 0..(IQS7219_NUM_CHAN - 1) :
                                       TrigValid7219(i, pf, pxs_flags))
                /\ pxs_flags' = CachedFlags7219(pf)
                /\ silent' = [c \in 0..(IQS7219_NUM_CHAN - 1) |->
                                IF ChanFlags7219(pf, c) # ChanFlags7219(pxs_flags, c)
                                THEN ~event_enable[c] ELSE silent[c]]
                /\ pc' = "rs_out"
                /\ UNCHANGED <<acted, stack, error, initVars>>
    /\ UNCHANGED <<val_req, check_ok, sys_flags, trig_polled, pxs_before, mode_before, status>>
    /\ UNCHANGED <<wlog, atiVars, intf_mode, mode_owed, cfgVars>>
    /\ UNCHANGED <<busVars, propVars, extVars>>

RecoveredResultAlways7219(v, e) == IF e = 0 THEN -EAGAIN ELSE e

\* "if (val && !error) error = -EAGAIN;"
RecoveredResult7219(v, e) == IF v /\ e = 0 THEN -EAGAIN ELSE e

\* report_sync: dev_init or the ATI trigger has returned
ReportRecovered7219 ==
    /\ pc = "rs_recovered"
    /\ error' = RecoveredResult7219(val_req, error)
    /\ pc' = "rs_out"
    /\ UNCHANGED <<stack, initVars, wlog, atiVars, devVars, cfgVars, passVars>>
    /\ UNCHANGED <<busVars, propVars, extVars>>

\* report_sync: "out_mutex: mutex_unlock(&iqs7219->lock);"
ReportUnlock7219 ==
    /\ pc = "rs_out"
    /\ lock' = "none"
    /\ pc' = "rs_poll"
    /\ UNCHANGED <<stack, error, initVars, wlog, atiVars, devVars, cfgVars,
                   passVars>>
    /\ UNCHANGED <<busVars, propVars, ctxRest, extRest>>

\* the trigger is polled whatever the pass found
PollWantedAlways7219(e, pending) == e = 0

\* "if (!error && trig_pending)"
PollWanted7219(e, pending) == e = 0 /\ pending

\* report_sync: poll the trigger, return error
ReportOut7219 ==
    /\ pc = "rs_poll"
    /\ trig_polled' = PollWanted7219(error, trig_pending)
    /\ Return(error)
    /\ UNCHANGED <<val_req, check_ok, sys_flags, new_flags, events, val_out, scan,
                   trig_pending, pxs_before, mode_before, status, branch, acted>>
    /\ UNCHANGED <<initVars, wlog, atiVars, devVars, cfgVars>>
    /\ UNCHANGED <<busVars, propVars, extVars>>

\* write_event_config: the event mask handed to write_comms
EventConfigMask7219(ch, st) ==
    LET add(i, m) ==
          IF trig_enable \/ (i # ch /\ event_enable[i]) \/ (i = ch /\ st)
          THEN BitOr(m, event_mask[i]) ELSE m
    IN add(1, add(0, IQS7219_EVENT_MASK_ATI))

\* iqs7219_write_event_config, under the lock and with the interrupt
\* disabled: program the event mask, then record the channel's new state
\* if the write succeeded
WriteEventConfig7219 ==
    /\ variant = "iqs7219"
    /\ pc = "idle"
    /\ intf_mode # IQS7219_SYS_SETUP_INTF_MODE_STAND
    /\ \E ch \in 0..(IQS7219_NUM_CHAN - 1), st \in BOOLEAN :
         IF comms_setup = 0
         THEN /\ wlog' = <<>>
              /\ error' = 0
              /\ event_enable' = [event_enable EXCEPT ![ch] = st]
              /\ UNCHANGED comms_reg
         ELSE \E er \in ReadResults, ew \in WriteResults, val \in {0, 287} :
                LET rd == Access("comms_rd", -1, -1, er)
                    wr == Access("evcfg", -1,
                                 BitOr(BitClear(val, BitOr(IQS7219_COMMS_HOLD,
                                                            IQS7219_EVENT_MASK_ALL)),
                                       EventConfigMask7219(ch, st)), ew)
                IN IF er # 0
                   THEN /\ wlog' = <<rd>>
                        /\ error' = er
                        /\ UNCHANGED <<event_enable, comms_reg>>
                   ELSE /\ wlog' = <<rd, wr>>
                        /\ error' = ew
                        /\ comms_reg' = (IF ew = 0 THEN wr.v ELSE comms_reg)
                        /\ event_enable' = IF ew = 0
                                            THEN [event_enable EXCEPT ![ch] = st]
                                            ELSE event_enable
    /\ InitFresh
    /\ AtiFresh
    /\ PassFresh(FALSE)
    /\ UNCHANGED <<pc, stack, devVars>>
    /\ UNCHANGED <<sys_setup0, comms_setup, event_mask, trig_enable, sl_enable,
                   eng_word, kp_type>>
    /\ UNCHANGED <<busVars, propVars, ctxVars, sideVars, probe, pm,
                   mux>>

\* set_trigger_state forgetting the channels whose events are enabled
TriggerStateMaskNoEvents7219(st) ==
    IF st THEN BitOr(IQS7219_EVENT_MASK_ATI, BitOr(event_mask[0], event_mask[1]))
    ELSE IQS7219_EVENT_MASK_ATI

\* set_trigger_state: the event mask handed to write_comms
TriggerStateMask7219(st) ==
    LET add(i, m) == IF st \/ event_enable[i]
                     THEN BitOr(m, event_mask[i]) ELSE m
    IN add(1, add(0, IQS7219_EVENT_MASK_ATI))

\* iqs7219_set_trigger_state, under the lock and with the interrupt
\* disabled: program the event mask, then record the trigger's new state if
\* the write succeeded
SetTriggerState7219 ==
    /\ variant = "iqs7219"
    /\ pc = "idle"
    /\ intf_mode # IQS7219_SYS_SETUP_INTF_MODE_STAND
    /\ \E st \in BOOLEAN :
         IF comms_setup = 0
         THEN /\ wlog' = <<>>
              /\ error' = 0
              /\ trig_enable' = st
              /\ UNCHANGED comms_reg
         ELSE \E er \in ReadResults, ew \in WriteResults, val \in {0, 287} :
                LET rd == Access("comms_rd", -1, -1, er)
                    wr == Access("trig", -1,
                                 BitOr(BitClear(val, BitOr(IQS7219_COMMS_HOLD,
                                                            IQS7219_EVENT_MASK_ALL)),
                                       TriggerStateMask7219(st)), ew)
                IN IF er # 0
                   THEN /\ wlog' = <<rd>>
                        /\ error' = er
                        /\ UNCHANGED <<trig_enable, comms_reg>>
                   ELSE /\ wlog' = <<rd, wr>>
                        /\ error' = ew
                        /\ comms_reg' = (IF ew = 0 THEN wr.v ELSE comms_reg)
                        /\ trig_enable' = (IF ew = 0 THEN st ELSE trig_enable)
    /\ InitFresh
    /\ AtiFresh
    /\ PassFresh(FALSE)
    /\ UNCHANGED <<pc, stack, devVars>>
    /\ UNCHANGED <<sys_setup0, comms_setup, event_mask, event_enable, sl_enable,
                   eng_word, kp_type>>
    /\ UNCHANGED <<busVars, propVars, ctxVars, sideVars, probe, pm,
                   mux>>

\* how many bus accesses other threads may add to the log of one status read
MaxMeanwhile == 2

\* iqs7219_set_trigger_state called from another thread while a synchronous
\* read (read_raw through report_async, which keeps the interrupt disabled)
\* stands between its mutex_unlock and its poll of the trigger: the lock is
\* free and disable_irq has no handler to wait for, so the call runs to its
\* end there.  Its error is its own local.
SetTriggerStateMeanwhile7219 ==
    /\ variant = "iqs7219"
    /\ pc = "rs_poll"
    /\ val_req
    /\ lock = "none"
    /\ intf_mode # IQS7219_SYS_SETUP_INTF_MODE_STAND
    /\ Len(wlog) < MaxMeanwhile
    /\ \E st \in BOOLEAN :
         IF comms_setup = 0
         THEN /\ trig_enable' = st
              /\ UNCHANGED <<wlog, comms_reg>>
         ELSE \E er \in ReadResults, ew \in WriteResults, val \in {0, 287} :
                LET rd == Access("comms_rd", -1, -1, er)
                    wr == Access("trig", -1,
                                 BitOr(BitClear(val, BitOr(IQS7219_COMMS_HOLD,
                                                            IQS7219_EVENT_MASK_ALL)),
                                       TriggerStateMask7219(st)), ew)
                IN IF er # 0
                   THEN /\ wlog' = wlog \o <<rd>>
                        /\ UNCHANGED <<trig_enable, comms_reg>>
                   ELSE /\ wlog' = wlog \o <<rd, wr>>
                        /\ comms_reg' = (IF ew = 0 THEN wr.v ELSE comms_reg)
                        /\ trig_enable' = (IF ew = 0 THEN st ELSE trig_enable)
    /\ trig_enable' # trig_enable
    /\ UNCHANGED <<pc, stack, error, initVars, atiVars, devVars, passVars>>
    /\ UNCHANGED <<sys_setup0, comms_setup, event_mask, event_enable, sl_enable,
                   eng_word, kp_type>>
    /\ UNCHANGED <<busVars, propVars, ctxVars, sideVars, probe, pm,
                   mux>>

Next7219 ==
    \/ DevInitCall7219
    \/ DevInitAck7219
    \/ DevInitHold7219
    \/ DevInitGroup7219
    \/ DevInitMask7219
    \/ DevInitTail7219
    \/ DevInitRet7219
    \/ AtiRead7219
    \/ AtiLoop7219
    \/ AtiRedo7219
    \/ AtiPoll7219
    \/ AtiStatus7219
    \/ AtiCond7219
    \/ ReportCall7219
    \/ ReportRead7219
    \/ ReportDecode7219
    \/ ReportRecovered7219
    \/ ReportUnlock7219
    \/ ReportOut7219

\* a decode pass on a chip that reports neither a reset nor an ATI error
ReportDecodeSettled7219 ==
    /\ DecodeBranch7219(sys_flags) \in {"normal", "ati_active"}
    /\ ReportDecode7219

\* the event interface of iqs7219 on a settled chip: the event enables are
\* rewritten between status reads
NextEvents7219 ==
    \/ WriteEventConfig7219
    \/ ReportCall7219
    \/ ReportRead7219
    \/ ReportDecodeSettled7219
    \/ ReportUnlock7219
    \/ ReportOut7219

SpecEvents7219 == Init7219 /\ [][NextEvents7219]_vars

\* the event mask of iqs7219: dev_init and the ATI trigger it ends with, and
\* between them the two calls that reprogram the mask
NextMask7219 ==
    \/ DevInitCall7219
    \/ DevInitAck7219
    \/ DevInitHold7219
    \/ DevInitGroup7219
    \/ DevInitMask7219
    \/ DevInitTail7219
    \/ DevInitRet7219
    \/ AtiRead7219
    \/ AtiLoop7219
    \/ AtiRedo7219
    \/ AtiPoll7219
    \/ AtiStatus7219
    \/ AtiCond7219
    \/ WriteEventConfig7219
    \/ SetTriggerState7219

SpecMask7219 == Init7219 /\ [][NextMask7219]_vars

\* the trigger of iqs7219: the status reads with their recoveries, and
\* between them the call that enables and disables the trigger
NextTrigger7219 ==
    \/ Next7219
    \/ SetTriggerState7219
    \/ SetTriggerStateMeanwhile7219

SpecTrigger7219 == Init7219 /\ [][NextTrigger7219]_vars

(* ------------------------------------------------------------------ *)
(* iqs323                                                              *)
(* ------------------------------------------------------------------ *)
\* status words the ATI trigger may read: none, active, error,
\* error+active, reset, reset+error+active
AtiStatusWords323 == {0, 32, 64, 96, 128, 224}

\* status words of a decode pass: the above, and channel 0 in proximity,
\* channel 0 in proximity and touch
StatusWords323 == AtiStatusWords323 \cup {256, 768}

\* slider positions: a contact, and no contact
SliderWords323 == {100, U16_MAX}

\* num_row of each register group
NumRow323(g) == IF g < 2 THEN IQS323_NUM_CHAN ELSE 1

\* the group has columns and iqs323_setup knows it: all but GPIO and REL
HasSetup323(g) == g < 7

\* the (channel, event) pairs with kp_type set, in the order the loops visit
\* them: proximity and touch of channel 0, proximity of channel 1
KpEnabled323 == <<<<0, 0>>, <<0, 1>>, <<1, 0>>>>

\* iqs323_kp_events[j].mask
KpMask323(j) ==
    CASE j = 0 -> IQS323_EVENT_MASK_PROX
      [] j = 1 -> IQS323_EVENT_MASK_TOUCH
      [] OTHER -> 0

\* the word iqs323_write_mode puts in SYS_SETUP
ModeWord323(setup, intf, power, cmd) ==
    LET w0 == BitOr(setup, cmd)
        w1 == IF intf = IQS323_INTF_MODE_EVENT
              THEN BitOr(w0, IQS323_SYS_SETUP_EVENT_MODE)
              ELSE BitClear(w0, IQS323_SYS_SETUP_EVENT_MODE)
    IN IF power # IQS323_POWER_MODE_USER
       THEN BitOr(BitClear(w1, IQS323_SYS_SETUP_POWER_MODE_MASK),
                  power * Pow2(IQS323_SYS_SETUP_POWER_MODE_SHIFT))
       ELSE w1

\* the mode cached whether or not the write went through
CachedModeKept323(e, intf) == intf

\* iqs323_write_mode: the mode cached once the write has returned `e`
CachedMode323(e, intf) == IF e # 0 THEN IQS323_INTF_MODE_ERROR ELSE intf

Init323At(q) ==
    /\ PropsParked
    /\ ExtParkedAt(q)
    /\ BusIdle("iqs323")
    /\ DrvInitCommon
    /\ intf_mode = IQS323_INTF_MODE_ERROR
    /\ sys_setup0 = 160
    /\ comms_setup = 0
    /\ event_mask = (0 :> 0 @@ 1 :> 0)
    /\ event_enable = (0 :> FALSE @@ 1 :> FALSE)
    /\ trig_enable = FALSE
    /\ sl_enable \in BOOLEAN
    /\ eng_word = 0
    /\ kp_type = {}

\* the iqs323 after construction
Init323 == Init323At("idle")

\* iqs323_probe: dev_init(READ) or dev_init(WRITE)
DevInitCall323 ==
    /\ variant = "iqs323"
    /\ pc = "idle"
    /\ \E d \in {"READ", "WRITE"} : InitEnter(d)
    /\ pc' = "d3_ack"
    /\ wlog' = <<>>
    /\ error' = 0
    /\ AtiFresh
    /\ PassFresh(FALSE)
    /\ UNCHANGED <<stack, devVars, cfgVars>>
    /\ UNCHANGED <<busVars, propVars, extVars>>

\* dev_init: write_mode(STREAM, USER, ACK_RESET) first when dir == WRITE
DevInitAck323 ==
    /\ pc = "d3_ack"
    /\ IF dir = "WRITE"
       THEN \E e \in WriteResults :
              /\ wlog' = Append(wlog, Access("ack", -1,
                            ModeWord323(sys_setup0, IQS323_INTF_MODE_STREAM,
                                        IQS323_POWER_MODE_USER,
                                        IQS323_SYS_SETUP_ACK_RESET), e))
              /\ intf_mode' = CachedMode323(e, IQS323_INTF_MODE_STREAM)
              /\ mode_owed' = (mode_owed \/ e # 0)
              /\ IF e # 0
                 THEN InitReturn(e)
                 ELSE /\ pc' = "d3_grp"
                      /\ UNCHANGED <<stack, error, init_state, init_err>>
       ELSE /\ pc' = "d3_grp"
            /\ UNCHANGED <<stack, error, init_state, init_err, wlog, intf_mode,
                           mode_owed>>
    /\ UNCHANGED <<dir, grp, row, atiVars, pxs_flags, silent, cfgVars, passVars>>
    /\ UNCHANGED <<busVars, propVars, extVars>>

\* dev_init: the loop over the groups; a group without columns or setup is
\* skipped, kcalloc may fail before anything is put on the bus
DevInitGroup323 ==
    /\ pc = "d3_grp"
    /\ IF grp < IQS323_NUM_REG_GRPS
       THEN IF ~HasSetup323(grp)
            THEN /\ grp' = grp + 1
                 /\ UNCHANGED <<pc, stack, error, row, init_state, init_err>>
            ELSE \/ /\ InitReturn(-ENOMEM)
                    /\ UNCHANGED <<grp, row>>
                 \/ /\ pc' = "d3_row"
                    /\ row' = 0
                    /\ UNCHANGED <<stack, error, grp, init_state, init_err>>
       ELSE /\ pc' = "d3_tail"
            /\ UNCHANGED <<stack, error, grp, row, init_state, init_err>>
    /\ UNCHANGED <<dir, wlog, atiVars, devVars, cfgVars, passVars>>
    /\ UNCHANGED <<busVars, propVars, extVars>>

\* dev_init: the loop over the rows of a group, one burst per row
DevInitRow323 ==
    /\ pc = "d3_row"
    /\ IF row < NumRow323(grp)
       THEN \E e \in (IF dir = "READ" THEN ReadResults ELSE WriteResults) :
              /\ wlog' = Append(wlog, Access("grp", grp, -1, e))
              /\ IF e # 0
                 THEN InitReturn(e) /\ UNCHANGED <<grp, row>>
                 ELSE /\ row' = row + 1
                      /\ UNCHANGED <<pc, stack, error, grp, init_state, init_err>>
       ELSE /\ grp' = grp + 1
            /\ pc' = "d3_grp"
            /\ UNCHANGED <<stack, error, row, init_state, init_err, wlog>>
    /\ UNCHANGED <<dir, atiVars, devVars, cfgVars, passVars>>
    /\ UNCHANGED <<busVars, propVars, extVars>>

\* dev_init: return 0 after a READ, else call the ATI trigger
DevInitTail323 ==
    /\ pc = "d3_tail"
    /\ IF dir = "READ"
       THEN InitReturn(0)
       ELSE /\ Call("a3_loop", "d3_ret")
            /\ UNCHANGED <<error, init_state, init_err>>
    /\ UNCHANGED <<dir, grp, row, wlog, atiVars, devVars, cfgVars, passVars>>
    /\ UNCHANGED <<busVars, propVars, extVars>>

\* dev_init: "return iqs323_ati_trigger(iqs323);"
DevInitRet323 ==
    /\ pc = "d3_ret"
    /\ InitReturn(error)
    /\ UNCHANGED <<dir, grp, row, wlog, atiVars, devVars, cfgVars, passVars>>
    /\ UNCHANGED <<busVars, propVars, extVars>>

\* for (i = 0; i < IQS323_NUM_RETRIES; i++)
AtiRetryAgain323(i) == i < IQS323_NUM_RETRIES

\* iqs323_ati_trigger: the for statement and the redo-ATI command written
\* in streaming mode; "return error" once the loop runs out
AtiLoop323 ==
    /\ pc = "a3_loop"
    /\ IF AtiRetryAgain323(ati_i)
       THEN \E e \in WriteResults :
              /\ wlog' = Append(wlog, Access("redo", -1,
                            ModeWord323(sys_setup0, IQS323_INTF_MODE_STREAM,
                                        IQS323_POWER_MODE_USER,
                                        IQS323_SYS_SETUP_REDO_ATI), e))
              /\ redo_writes' = redo_writes + 1
              /\ intf_mode' = CachedMode323(e, IQS323_INTF_MODE_STREAM)
              /\ mode_owed' = (mode_owed \/ e # 0)
              /\ IF e # 0
                 THEN AtiReturn(e)
                 ELSE /\ error' = 0
                      /\ pc' = "a3_poll"
                      /\ ati_state' = "running"
                      /\ UNCHANGED <<stack, ati_err>>
       ELSE /\ AtiReturn(error)
            /\ UNCHANGED <<wlog, redo_writes, intf_mode, mode_owed>>
    /\ UNCHANGED <<ati_i, ati_n, sys_setup, sys_status, aan, err_only>>
    /\ UNCHANGED <<initVars, pxs_flags, silent, cfgVars, passVars>>
    /\ UNCHANGED <<busVars, propVars, extVars>>

\* iqs323_ati_trigger: irq_poll over the 2 s window; an error is a continue
AtiPoll323 ==
    /\ pc = "a3_poll"
    /\ \E r \in PollResults323 :
         /\ error' = r
         /\ IF r # 0
            THEN pc' = "a3_loop" /\ ati_i' = ati_i + 1 /\ err_only' = FALSE
            ELSE pc' = "a3_status" /\ UNCHANGED <<ati_i, err_only>>
    /\ UNCHANGED <<ati_n, sys_setup, sys_status, aan, redo_writes, ati_state,
                   ati_err>>
    /\ UNCHANGED <<stack, initVars, wlog, devVars, cfgVars, passVars>>
    /\ UNCHANGED <<busVars, propVars, extVars>>

AtiBranchResetLast323(w) ==
    IF Test(w, IQS323_SYS_STATUS_ATI_ERROR) THEN "ati_error"
    ELSE IF Test(w, IQS323_SYS_STATUS_ATI_ACTIVE) THEN "ati_active"
    ELSE IF Test(w, IQS323_SYS_STATUS_RESET) THEN "reset"
    ELSE "done"

\* iqs323_ati_trigger: the tests on sys_status, in the order of the source
AtiBranch323(w) ==
    IF Test(w, IQS323_SYS_STATUS_RESET) THEN "reset"
    ELSE IF Test(w, IQS323_SYS_STATUS_ATI_ERROR) THEN "ati_error"
    ELSE IF Test(w, IQS323_SYS_STATUS_ATI_ACTIVE) THEN "ati_active"
    ELSE "done"

AtiErrorCodeTimedOut323 == -ETIMEDOUT

\* "error = -EIO; continue;"
AtiErrorCode323 == -EIO

\* iqs323_ati_trigger: read the status; reset: break; ATI error: -EIO and
\* continue; still active: -EBUSY and continue; neither: break
AtiStatus323 ==
    /\ pc = "a3_status"
    /\ \E e \in ReadResults, w \in AtiStatusWords323 :
         IF e # 0
         THEN /\ AtiReturn(e)
              /\ UNCHANGED <<ati_i, sys_status, aan, err_only>>
         ELSE /\ sys_status' = w
              /\ Remember(Test(w, IQS323_SYS_STATUS_ATI_ACTIVE),
                          Test(w, IQS323_SYS_STATUS_ATI_ERROR))
              /\ CASE AtiBranch323(w) = "ati_error" ->
                        /\ error' = AtiErrorCode323
                        /\ ati_i' = ati_i + 1
                        /\ pc' = "a3_loop"
                        /\ UNCHANGED <<stack, err_only, ati_state, ati_err>>
                   [] AtiBranch323(w) = "ati_active" ->
                        /\ error' = -EBUSY
                        /\ ati_i' = ati_i + 1
                        /\ err_only' = FALSE
                        /\ pc' = "a3_loop"
                        /\ UNCHANGED <<stack, ati_state, ati_err>>
                   [] OTHER ->
                        /\ AtiReturn(0)
                        /\ UNCHANGED <<ati_i, err_only>>
    /\ UNCHANGED <<ati_n, sys_setup, redo_writes>>
    /\ UNCHANGED <<initVars, wlog, devVars, cfgVars, passVars>>
    /\ UNCHANGED <<busVars, propVars, extVars>>

\* iqs323_irq -> report_sync, or ch_info_show -> report_async with its
\* buffer allocated
ReportCall323 ==
    /\ variant = "iqs323"
    /\ pc = "idle"
    /\ \E v \in BOOLEAN :
         /\ PassFresh(v)
         /\ stack' = IF v THEN <<"ci_show">> ELSE stack
    /\ pc' = "pe_read"
    /\ error' = 0
    /\ wlog' = <<>>
    /\ InitFresh
    /\ AtiFresh
    /\ UNCHANGED <<devVars, cfgVars>>
    /\ UNCHANGED <<busVars, propVars, extVars>>

\* process_events: burst-read the status block
ProcessRead323 ==
    /\ pc = "pe_read"
    /\ \E e \in ReadResults, ck \in BOOLEAN, sf \in StatusWords323 :
         IF e # 0
         THEN /\ error' = e
              /\ pc' = "pe_out"
              /\ UNCHANGED <<check_ok, sys_flags>>
         ELSE /\ error' = 0
              /\ check_ok' = ck
              /\ sys_flags' = sf
              /\ pc' = "pe_decode"
    /\ UNCHANGED <<val_req, new_flags, events, val_out, scan, trig_pending,
                   trig_polled, pxs_before, mode_before, status, branch, acted>>
    /\ UNCHANGED <<stack, initVars, wlog, atiVars, devVars, cfgVars>>
    /\ UNCHANGED <<busVars, propVars, extVars>>

\* process_events: the test on check_comms, then those on sys_status
DecodeBranch323(ck, sf) ==
    IF ~ck THEN "comms"
    ELSE IF Test(sf, IQS323_SYS_STATUS_RESET) THEN "reset"
    ELSE IF Test(sf, IQS323_SYS_STATUS_ATI_ERROR) THEN "ati_error"
    ELSE IF Test(sf, IQS323_SYS_STATUS_ATI_ACTIVE) THEN "ati_active"
    ELSE "normal"

\* the key events input_event is called with, in order
KeyEvents323(sf) ==
    [k \in 1..Len(KpEnabled323) |->
       [chan |-> KpEnabled323[k][1],
        code |-> KpEnabled323[k][2],
        value |-> IF Test(sf, KpMask323(KpEnabled323[k][2])
                              * Pow2(KpEnabled323[k][1] * 2 + 8))
                  THEN 1 ELSE 0]]

\* the slider position is reported when there is a contact and the input
\* device has an absolute axis
SliderEvents323(pos) ==
    IF pos < U16_MAX /\ sl_enable
    THEN <<[chan |-> -1, code |-> -1, value |-> pos]>>
    ELSE <<>>

\* iqs323_sl_events[i].mask, the press key first
iqs323_sl_masks == <<0, 1, 130, 132, 8, 16, 160>>

\* low byte of the slider status word as the chip may report it: nothing,
\* a tap, a swipe in progress, a flick with the event bit, a hold
SliderStatus323 == {0, 1, 130, 72, 160}

\* input_sync(iqs323->kp_idev) / input_sync(iqs9150->kp_idev)
SyncReport == [chan |-> -3, code |-> 0, value |-> 0]

\* the first loop over iqs323_sl_events from entry `i` on: the key of each
\* gesture is reported with "mask ? (sldr_status & mask) == mask : sldr_pos <
\* U16_MAX", and a gesture that lasts takes its bit out of sldr_status
RECURSIVE SlKeys323(_, _, _)
SlKeys323(i, st, pos) ==
    IF i > Len(iqs323_sl_masks) THEN <<>>
    ELSE LET mask == iqs323_sl_masks[i]
             down == IF mask # 0 THEN BitAnd(st, mask) = mask
                     ELSE pos < U16_MAX
         IN <<[chan |-> -2, code |-> i - 1,
               value |-> IF down THEN 1 ELSE 0]>>
            \o SlKeys323(i + 1,
                         IF Test(mask, IQS323_SLDR_STATUS_BUSY)
                         THEN BitClear(st, BitClear(mask, IQS323_SLDR_STATUS_BUSY))
                         ELSE st,
                         pos)

\* sldr_status behind the first loop
RECURSIVE SlRest323(_, _)
SlRest323(i, st) ==
    IF i > Len(iqs323_sl_masks) THEN st
    ELSE SlRest323(i + 1,
                   IF Test(iqs323_sl_masks[i], IQS323_SLDR_STATUS_BUSY)
                   THEN BitClear(st, BitClear(iqs323_sl_masks[i],
                                              IQS323_SLDR_STATUS_BUSY))
                   ELSE st)

\* the second loop: a momentary gesture was reported, so the keys of the
\* momentary gestures are released again
SlReleases323(st) ==
    IF BitClear(SlRest323(1, st), IQS323_SLDR_STATUS_BUSY) # 0
    THEN LET momentary ==
                 SelectSeq([i \in 1..Len(iqs323_sl_masks) |-> i],
                           LAMBDA i : /\ iqs323_sl_masks[i] # 0
                                      /\ ~Test(iqs323_sl_masks[i],
                                               IQS323_SLDR_STATUS_BUSY))
         IN <<SyncReport>>
            \o [k \in 1..Len(momentary) |->
                  [chan |-> -2, code |-> momentary[k] - 1, value |-> 0]]
    ELSE <<>>

\* the press key reported whatever the contact
SlPressAlways323(st, pos) ==
    SlKeys323(1, BitClear(st, IQS323_SLDR_STATUS_EVENT), 0)
      \o SlReleases323(BitClear(st, IQS323_SLDR_STATUS_EVENT)) \o <<SyncReport>>

\* the slider's keys input_report_key is called with, in order, and the
\* calls of input_sync; "sldr_status &= ~IQS323_SLDR_STATUS_EVENT" first
SlEvents323(st, pos) ==
    SlKeys323(1, BitClear(st, IQS323_SLDR_STATUS_EVENT), pos)
      \o SlReleases323(BitClear(st, IQS323_SLDR_STATUS_EVENT)) \o <<SyncReport>>

\* the communication mode the pass wants: streaming while the slider is in
\* contact, event mode otherwise
WantedMode323(pos) ==
    IF pos < U16_MAX /\ sl_enable
    THEN IQS323_INTF_MODE_STREAM
    ELSE IQS323_INTF_MODE_EVENT

\* process_events: act on check_comms and the status word.  The slider
\* position and the slider status are the chip's choice; they are drawn
\* where the pass first uses them.
ProcessDecode323 ==
    /\ pc = "pe_decode"
    /\ branch' = DecodeBranch323(check_ok, sys_flags)
    /\ CASE DecodeBranch323(check_ok, sys_flags) = "comms" ->
              \E r \in PollResults323 :
                /\ IF r # 0
                   THEN /\ error' = r
                        /\ pc' = "pe_out"
                        /\ UNCHANGED <<acted, stack, initVars>>
                   ELSE /\ acted' = "init"
                        /\ InitEnter("WRITE")
                        /\ Call("d3_ack", "pe_recovered")
                        /\ UNCHANGED error
                /\ UNCHANGED <<new_flags, events, wlog, intf_mode, mode_owed,
                               status>>
         [] DecodeBranch323(check_ok, sys_flags) = "reset" ->
              /\ acted' = "init"
              /\ InitEnter("WRITE")
              /\ Call("d3_ack", "pe_recovered")
              /\ UNCHANGED <<error, new_flags, events, wlog, intf_mode,
                             mode_owed, status>>
         [] DecodeBranch323(check_ok, sys_flags) = "ati_error" ->
              /\ acted' = "ati"
              /\ Call("a3_loop", "pe_recovered")
              /\ UNCHANGED <<error, initVars, new_flags, events, wlog,
                             intf_mode, mode_owed, status>>
         [] DecodeBranch323(check_ok, sys_flags) = "ati_active" ->
              /\ error' = -EAGAIN
              /\ pc' = "pe_out"
              /\ UNCHANGED <<acted, stack, initVars, new_flags, events, wlog,
                             intf_mode, mode_owed, status>>
         [] OTHER ->
              \E pos \in SliderWords323, st \in SliderStatus323 :
                /\ new_flags' = pos
                /\ status' = [NoStatus EXCEPT !.f0 = st]
                /\ events' = KeyEvents323(sys_flags) \o SliderEvents323(pos)
                              \o SlEvents323(st, pos)
                /\ pc' = "pe_out"
                /\ IF WantedMode323(pos) = intf_mode
                   THEN /\ error' = 0
                        /\ mode_owed' = FALSE
                        /\ UNCHANGED <<wlog, intf_mode>>
                   ELSE \E e \in WriteResults :
                          /\ mode_owed' = (e # 0)
                          /\ wlog' = Append(wlog, Access("mode", -1,
                                        ModeWord323(sys_setup0, WantedMode323(pos),
                                                    IQS323_POWER_MODE_USER, 0), e))
                          /\ intf_mode' = CachedMode323(e, WantedMode323(pos))
                          /\ error' = e
                /\ UNCHANGED <<acted, stack, initVars>>
    /\ UNCHANGED <<val_req, check_ok, sys_flags, val_out, scan, trig_pending,
                   trig_polled, pxs_before, mode_before>>
    /\ UNCHANGED <<atiVars, pxs_flags, silent, cfgVars>>
    /\ UNCHANGED <<busVars, propVars, extVars>>

\* process_events: "return iqs323_dev_init(iqs323, WRITE) ? : -EAGAIN;" and
\* "return iqs323_ati_trigger(iqs323) ? : -EAGAIN;"
ProcessRecovered323 ==
    /\ pc = "pe_recovered"
    /\ error' = (IF error # 0 THEN error ELSE -EAGAIN)
    /\ pc' = "pe_out"
    /\ UNCHANGED <<stack, initVars, wlog, atiVars, devVars, cfgVars, passVars>>
    /\ UNCHANGED <<busVars, propVars, extVars>>

\* report_sync turns -EAGAIN into 0; report_async returns the error as is
ReportOut323 ==
    /\ pc = "pe_out"
    /\ Return(IF ~val_req /\ error = -EAGAIN THEN 0 ELSE error)
    /\ UNCHANGED <<initVars, wlog, atiVars, devVars, cfgVars, passVars>>
    /\ UNCHANGED <<busVars, propVars, extVars>>

ChInfoDeltaClamped323(l, c) == IF l - c > 0 THEN l - c ELSE 0

\* "int delta = lta - counts;" with both operands u16
ChInfoDelta323(l, c) == l - c

\* ch_info_show once report_async has returned: on success print counts,
\* long-term average and delta of an enabled channel
ChInfoShow323 ==
    /\ pc = "ci_show"
    /\ IF error # 0
       THEN UNCHANGED <<val_out, scan>>
       ELSE \E l \in Readings, c \in Readings :
              /\ val_out' = TRUE
              /\ scan' = [lta |-> l, counts |-> c,
                          delta |-> ChInfoDelta323(l, c)]
    /\ Return(error)
    /\ UNCHANGED <<val_req, check_ok, sys_flags, new_flags, events,
                   trig_pending, trig_polled, pxs_before, mode_before, status, branch, acted>>
    /\ UNCHANGED <<initVars, wlog, atiVars, devVars, cfgVars>>
    /\ UNCHANGED <<busVars, propVars, extVars>>

Next323 ==
    \/ DevInitCall323
    \/ DevInitAck323
    \/ DevInitGroup323
    \/ DevInitRow323
    \/ DevInitTail323
    \/ DevInitRet323
    \/ AtiLoop323
    \/ AtiPoll323
    \/ AtiStatus323
    \/ ReportCall323
    \/ ProcessRead323
    \/ ProcessDecode323
    \/ ProcessRecovered323
    \/ ReportOut323
    \/ ChInfoShow323

(* ------------------------------------------------------------------ *)
(* iqs9150                                                             *)
(* ------------------------------------------------------------------ *)
\* keypad configurations: no event at all; a tap, a hold, the two scroll
\* directions of one axis and the low-power channel; every entry
KpConfigs9150 == {{}, {1, 4, 20, 21, 25}, 1..25}

\* parse_firmware leaves comms_mode at FORCE or FREE
Init9150At(q) ==
    /\ PropsParked
    /\ ExtParkedAt(q)
    /\ \E m \in {"FORCE", "FREE"} : BusIdleIn("iqs9150", m)
    /\ DrvInitCommon
    /\ intf_mode = 0
    /\ sys_setup0 = 0
    /\ comms_setup = 0
    /\ event_mask = (0 :> 0 @@ 1 :> 0)
    /\ event_enable = (0 :> FALSE @@ 1 :> FALSE)
    /\ trig_enable = FALSE
    /\ sl_enable = FALSE
    /\ eng_word \in {0, IQS9150_COMMS_ERROR}
    /\ kp_type \in KpConfigs9150

\* the iqs9150 after construction
Init9150 == Init9150At("idle")

\* iqs9150_probe / iqs9150_report: init_device
InitCall9150 ==
    /\ variant = "iqs9150"
    /\ pc = "idle"
    /\ InitEnter("WRITE")
    /\ pc' = "i9_ack"
    /\ wlog' = <<>>
    /\ error' = 0
    /\ AtiFresh
    /\ PassFresh(FALSE)
    /\ UNCHANGED <<stack, devVars, cfgVars>>
    /\ UNCHANGED <<busVars, propVars, extVars>>

\* one write of init_device: logged, and on failure returned at once
InitWrite9150(kind, g, v, next) ==
    /\ \E e \in WriteResults :
         /\ wlog' = Append(wlog, Access(kind, g, v, e))
         /\ IF e # 0
            THEN InitReturn(e)
            ELSE IF next = "ret"
                 THEN InitReturn(0)
                 ELSE /\ pc' = next
                      /\ UNCHANGED <<stack, error, init_state, init_err>>
    /\ UNCHANGED <<dir, grp, row, atiVars, devVars, cfgVars, passVars>>
    /\ UNCHANGED <<busVars, propVars, extVars>>

\* init_device: IQS9150_CONTROL_ACK_RESET
InitAck9150 ==
    /\ pc = "i9_ack"
    /\ InitWrite9150("ack", -1, IQS9150_CONTROL_ACK_RESET, "i9_timeout")

\* init_device: IQS9150_TIMEOUT_COMMS
InitTimeout9150 ==
    /\ pc = "i9_timeout"
    /\ InitWrite9150("timeout", -1, -1, "i9_reg")

\* init_device: the register buffer
InitRegBuf9150 ==
    /\ pc = "i9_reg"
    /\ InitWrite9150("grp", 0, -1, "i9_eng")

\* init_device: the engineering buffer, unless it holds the sentinel
InitEngBuf9150 ==
    /\ pc = "i9_eng"
    /\ IF eng_word # IQS9150_COMMS_ERROR
       THEN InitWrite9150("grp", 1, -1, "i9_ati")
       ELSE /\ pc' = "i9_ati"
            /\ UNCHANGED <<stack, error, initVars, wlog, atiVars, devVars,
                           cfgVars, passVars>>
            /\ UNCHANGED <<busVars, propVars, extVars>>

\* init_device: IQS9150_CONTROL_ATI_ALP | IQS9150_CONTROL_ATI_TP
InitAti9150 ==
    /\ pc = "i9_ati"
    /\ InitWrite9150("ati", -1,
                     BitOr(IQS9150_CONTROL_ATI_ALP, IQS9150_CONTROL_ATI_TP), "ret")

\* bits of the info word, flags[2] of the status block
IQS9150_INFO_SHOW_RESET == 128
IQS9150_INFO_ALP_ATI_AGAIN == 64
IQS9150_INFO_ALP_ATI_ERROR == 32
IQS9150_INFO_TP_ATI_AGAIN == 16
IQS9150_INFO_TP_ATI_ERROR == 8
IQS9150_INFO_CHARGE_MODE == 7
IQS9150_INFO_CHARGE_MODE_LP1 == 3

\* one entry of iqs9150_kp_events
KpEvent9150(mask, travel, g, key) ==
    [mask |-> mask, travel |-> travel, grp |-> g, key |-> key]

\* iqs9150_kp_events[], entry i of the array at position i + 1
iqs9150_kp_events ==
    << KpEvent9150(1, 0, "1F", "TAP"), KpEvent9150(2, 0, "1F", "TAP"),
       KpEvent9150(4, 0, "1F", "TAP"), KpEvent9150(8, 0, "1F", "HOLD"),
       KpEvent9150(16, 0, "1F", "PALM"), KpEvent9150(256, 0, "1F", "AXIAL_X"),
       KpEvent9150(512, 0, "1F", "AXIAL_X"), KpEvent9150(1024, 0, "1F", "AXIAL_Y"),
       KpEvent9150(2048, 0, "1F", "AXIAL_Y"), KpEvent9150(4096, 0, "1F", "HOLD"),
       KpEvent9150(8192, 0, "1F", "HOLD"), KpEvent9150(16384, 0, "1F", "HOLD"),
       KpEvent9150(32768, 0, "1F", "HOLD"),
       KpEvent9150(1, 0, "2F", "TAP"), KpEvent9150(2, 0, "2F", "TAP"),
       KpEvent9150(4, 0, "2F", "TAP"), KpEvent9150(8, 0, "2F", "HOLD"),
       KpEvent9150(16, 0, "2F", "ZOOM"), KpEvent9150(32, 0, "2F", "ZOOM"),
       KpEvent9150(64, 0, "2F", "SCROLL_Y"), KpEvent9150(64, 32768, "2F", "SCROLL_Y"),
       KpEvent9150(128, 0, "2F", "SCROLL_X"), KpEvent9150(128, 32768, "2F", "SCROLL_X"),
       KpEvent9150(1024, 0, "SW", "HOLD"),
       KpEvent9150(256, 0, "ALP", "TAP") >>

\* iqs9150_reg_grps[reg_grp].ati_mask
AtiMask9150(g) ==
    CASE g \in {"1F", "2F"} ->
           BitOr(IQS9150_INFO_TP_ATI_ERROR, IQS9150_INFO_TP_ATI_AGAIN)
      [] g = "ALP" ->
           BitOr(IQS9150_INFO_ALP_ATI_ERROR, IQS9150_INFO_ALP_ATI_AGAIN)
      [] OTHER -> 0

\* status->flags[iqs9150_reg_grps[reg_grp].status_offs]; flags[2] is the
\* info word
KpFlags9150(g, info, st) ==
    CASE g = "1F" -> st.f0
      [] g = "2F" -> st.f1
      [] OTHER -> info

\* the "continue" statements of the first loop over iqs9150_kp_events
KpSkipped9150(i, info, st) ==
    LET e == iqs9150_kp_events[i]
    IN \/ i \notin kp_type
       \/ BitAnd(info, AtiMask9150(e.grp)) # 0
       \/ /\ e.grp = "ALP"
          /\ BitAnd(info, IQS9150_INFO_CHARGE_MODE) < IQS9150_INFO_CHARGE_MODE_LP1
       \/ e.key = "SCROLL_X" /\ BitAnd(st.gx, 32768) # e.travel
       \/ e.key = "SCROLL_Y" /\ BitAnd(st.gy, 32768) # e.travel

\* no gesture is taken to be momentary
MomentaryNone9150(i) == FALSE

\* "reg_key != IQS9150_REG_KEY_HOLD && reg_key != IQS9150_REG_KEY_PALM"
Momentary9150(i) == iqs9150_kp_events[i].key \notin {"HOLD", "PALM"}

\* what the input core is handed: a key of the keypad, the frame of the
\* trackpad
KeyReport9150(i, v) == [chan |-> -4, code |-> i, value |-> v]
FrameReport9150 == [chan |-> -5, code |-> 0, value |-> 0]

\* the keypad part of iqs9150_report: every entry that is not skipped is
\* reported with its status bit; if a momentary one was down, a sync and a
\* release of every momentary entry follow; a sync ends the part
KpReports9150(info, st) ==
    IF kp_type = {} THEN <<>>
    ELSE LET all == [i \in 1..Len(iqs9150_kp_events) |-> i]
             shown == SelectSeq(all, LAMBDA i : ~KpSkipped9150(i, info, st))
             down(i) == Test(KpFlags9150(iqs9150_kp_events[i].grp, info, st),
                             iqs9150_kp_events[i].mask)
             flush == \E k \in 1..Len(shown) :
                         Momentary9150(shown[k]) /\ down(shown[k])
             again == SelectSeq(all, Momentary9150)
         IN [k \in 1..Len(shown) |->
               KeyReport9150(shown[k], IF down(shown[k]) THEN 1 ELSE 0)]
            \o (IF flush
                THEN <<SyncReport>>
                     \o [k \in 1..Len(again) |-> KeyReport9150(again[k], 0)]
                ELSE <<>>)
            \o <<SyncReport>>

\* the trackpad part: the contacts are reported and the frame closed unless
\* the trackpad's ATI failed or ran again
TpReports9150(info) ==
    IF BitAnd(info, BitOr(IQS9150_INFO_TP_ATI_ERROR, IQS9150_INFO_TP_ATI_AGAIN)) # 0
    THEN <<>>
    ELSE <<FrameReport9150>>

\* info words the chip may report: normal power, low power, a reset, an ATI
\* error of the trackpad, one of the low-power channel, the switch held,
\* the low-power channel active
InfoWords9150 == {0, 3, 131, 11, 35, 1027, 259}

\* status blocks the chip may report: nothing; a tap; a hold; a tap and a
\* hold with a two-finger scroll down; an upward scroll
StatusBlocks9150 ==
    { NoStatus,
      [f0 |-> 1, f1 |-> 0, gx |-> 0, gy |-> 0],
      [f0 |-> 8, f1 |-> 0, gx |-> 0, gy |-> 0],
      [f0 |-> 9, f1 |-> 64, gx |-> 0, gy |-> 32768],
      [f0 |-> 0, f1 |-> 64, gx |-> 0, gy |-> 1] }

\* iqs9150_irq: iqs9150_report
ReportCall9150 ==
    /\ variant = "iqs9150"
    /\ pc = "idle"
    /\ PassFresh(FALSE)
    /\ pc' = "r9_read"
    /\ error' = 0
    /\ wlog' = <<>>
    /\ InitFresh
    /\ AtiFresh
    /\ UNCHANGED <<stack, devVars, cfgVars>>
    /\ UNCHANGED <<busVars, propVars, extVars>>

\* iqs9150_report: burst-read the status block
ReportRead9150 ==
    /\ pc = "r9_read"
    /\ \E e \in ReadResults, info \in InfoWords9150, st \in StatusBlocks9150 :
         IF e # 0
         THEN /\ Return(e)
              /\ UNCHANGED <<sys_flags, status>>
         ELSE /\ sys_flags' = info
              /\ status' = st
              /\ pc' = "r9_decode"
              /\ UNCHANGED <<stack, error>>
    /\ UNCHANGED <<val_req, check_ok, new_flags, events, val_out, scan,
                   trig_pending, trig_polled, pxs_before, mode_before, branch,
                   acted>>
    /\ UNCHANGED <<initVars, wlog, atiVars, devVars, cfgVars>>
    /\ UNCHANGED <<busVars, propVars, extVars>>

\* iqs9150_report: after a reset the local comms_mode is given the mode and
\* the mode is put to WAIT; otherwise the trackpad and the keypad are
\* reported
ReportDecode9150 ==
    /\ pc = "r9_decode"
    /\ IF Test(sys_flags, IQS9150_INFO_SHOW_RESET)
       THEN /\ branch' = "reset"
            /\ comms_mode' = "WAIT"
            /\ pc' = "r9_config"
            /\ UNCHANGED <<stack, error, events>>
       ELSE /\ branch' = "normal"
            /\ events' = TpReports9150(sys_flags)
                          \o KpReports9150(sys_flags, status)
            /\ Return(0)
            /\ UNCHANGED comms_mode
    /\ UNCHANGED <<val_req, check_ok, sys_flags, new_flags, val_out, scan,
                   trig_pending, trig_polled, pxs_before, mode_before, status,
                   acted>>
    /\ UNCHANGED <<initVars, wlog, atiVars, devVars, cfgVars>>
    /\ UNCHANGED <<busRest, propVars, extVars>>

\* "if (error) return error; iqs9150->comms_mode = comms_mode;": the mode
\* after the write of CONFIG has returned `e`
ModeAfterConfig9150(e, now, saved) == IF e # 0 THEN now ELSE saved

\* iqs9150_report: the write of CONFIG; "return error" if it failed, else
\* the mode is restored and init_device called
ReportConfig9150 ==
    /\ pc = "r9_config"
    /\ \E e \in WriteResults :
         /\ wlog' = Append(wlog, Access("config", -1, -1, e))
         /\ comms_mode' = ModeAfterConfig9150(e, comms_mode, mode_before)
         /\ IF e # 0
            THEN /\ Return(e)
                 /\ UNCHANGED <<acted, initVars>>
            ELSE /\ acted' = "init"
                 /\ InitEnter("WRITE")
                 /\ Call("i9_ack", "r9_out")
                 /\ UNCHANGED error
    /\ UNCHANGED <<val_req, check_ok, sys_flags, new_flags, events, val_out, scan,
                   trig_pending, trig_polled, pxs_before, mode_before, status,
                   branch>>
    /\ UNCHANGED <<atiVars, devVars, cfgVars>>
    /\ UNCHANGED <<busRest, propVars, extVars>>

\* iqs9150_report: "return iqs9150_init_device(iqs9150);"
ReportOut9150 ==
    /\ pc = "r9_out"
    /\ Return(error)
    /\ UNCHANGED <<initVars, wlog, atiVars, devVars, cfgVars, passVars>>
    /\ UNCHANGED <<busVars, propVars, extVars>>

Next9150 ==
    \/ InitCall9150
    \/ InitAck9150
    \/ InitTimeout9150
    \/ InitRegBuf9150
    \/ InitEngBuf9150
    \/ InitAti9150
    \/ ReportCall9150
    \/ ReportRead9150
    \/ ReportDecode9150
    \/ ReportConfig9150
    \/ ReportOut9150

InitDrv == Init7219 \/ Init323 \/ Init9150

NextDrv == Next7219 \/ Next323 \/ Next9150

SpecDrv == InitDrv /\ [][NextDrv]_vars

\* the drivers stay idle while the transport alone is explored
DrvQuietAt(p) ==
    /\ DrvInitCommonAt(p)
    /\ intf_mode = 0
    /\ sys_setup0 = 0
    /\ comms_setup = 0
    /\ event_mask = (0 :> 0 @@ 1 :> 0)
    /\ event_enable = (0 :> FALSE @@ 1 :> FALSE)
    /\ trig_enable = FALSE
    /\ sl_enable = FALSE
    /\ eng_word = 0
    /\ kp_type = {}

\* the drivers at rest with a cleared image
DrvQuiet == DrvQuietAt("idle")

DrvParked == DrvQuiet /\ PropsParked /\ ExtParked

InitBus == BusInit /\ DrvParked

SpecBus == InitBus /\ [][BusNext]_vars

(* ------------------------------------------------------------------ *)
(* The configuration builder: parse_props                              *)
(* ------------------------------------------------------------------ *)
\* runs of parse_props on one group with one firmware node
MaxRuns == 2

\* a property that is not in the node / that is there without a u32 value
Absent == -1
Empty == -2

\* the loop goes on with the next property
CONTINUE == 1

\* contents a register word may have before the builder runs: cleared, a
\* pattern left by a bootloader, all ones
ImageWords == {0, 42405, U16_MAX}
ImageBytes == {0, 165, 255}

\* one row of a property table; fields the row does not name are zero
Prop(name, g, key, off, shift, width) ==
    [name |-> name, grp |-> g, key |-> key, off |-> off, shift |-> shift,
     width |-> width, pitch |-> 0, min |-> 0, max |-> 0, invert |-> FALSE,
     subs |-> <<>>, size |-> 0, span |-> 0]

\* rows of iqs7219_props[]: power-mode, proj-bias, counts-beta-lp,
\* direction-enable, dual-direction, conv-scale
Props7219 ==
    << Prop("power-mode", "", "sys", 0, 4, 2),
       Prop("proj-bias", "", "cap", 0, 2, 2),
       Prop("counts-beta-lp", "", "chan", 0, 12, 4),
       Prop("direction-enable", "", "chan", 0, 6, 1),
       Prop("dual-direction", "", "chan", 0, 0, 1),
       [Prop("conv-scale", "", "chan", 3, 0, 8) EXCEPT !.max = 3] >>

\* iqs323_sense_modes[]
iqs323_sense_modes == <<16, 19, 29, 61>>

\* rows of iqs323_props[]: sense-mode, ati-factor, ati-band-tighten,
\* ati-mode, timeout-comms-ms, timeout-press-ms (touch)
Props323 ==
    << [Prop("sense-mode", "snsr", "none", 2, 0, 6)
          EXCEPT !.subs = iqs323_sense_modes, !.max = 3],
       Prop("ati-factor", "snsr", "none", 6, 4, 12),
       [Prop("ati-band-tighten", "snsr", "none", 6, 3, 1) EXCEPT !.invert = TRUE],
       [Prop("ati-mode", "snsr", "none", 6, 0, 3) EXCEPT !.max = 4],
       [Prop("timeout-comms-ms", "gen", "none", 1, 0, 16)
          EXCEPT !.min = 2, !.max = 230],
       [Prop("timeout-press-ms", "gen", "touch", 2, 8, 8) EXCEPT !.pitch = 512] >>

\* rows of iqs9150_props[]: ati-comp-div, ati-comp-select (register
\* 0x115C of the ALP group, one word per index up to the span),
\* timeout-press-ms (0x11AC) and timeout-ati-ms (0x11B6) of the SYS group;
\* `grp` is the one group whose reg_addr[] entry is not zero
Props9150 ==
    << [Prop("ati-comp-div", "alp", "span", 4444, 10, 5)
          EXCEPT !.size = 2, !.span = 12],
       [Prop("ati-comp-select", "alp", "span", 4444, 0, 10)
          EXCEPT !.size = 2, !.span = 12],
       [Prop("timeout-press-ms", "sys", "none", 4524, 0, 0)
          EXCEPT !.size = 2, !.pitch = 1000],
       [Prop("timeout-ati-ms", "sys", "none", 4534, 0, 0)
          EXCEPT !.pitch = 1000, !.max = 60000] >>

Props(v) ==
    CASE v = "iqs7219" -> Props7219
      [] v = "iqs323" -> Props323
      [] OTHER -> Props9150

\* iqs7219_reg_grps[reg_grp].reg_key
GrpKey7219(g) == IF g \in {"chan_0", "chan_1"} THEN "chan" ELSE g

\* "reg_size ? : sizeof(u8)" on the iqs9150, a 16-bit word on the others
Size(v, d) == IF v # "iqs9150" THEN 2 ELSE IF d.size = 0 THEN 1 ELSE d.size

\* "reg_width ? : reg_size * BITS_PER_BYTE"
Width(v, d) == IF d.width = 0 THEN Size(v, d) * 8 ELSE d.width

\* "val_pitch ? : 1"
Pitch(d) == IF d.pitch = 0 THEN 1 ELSE d.pitch

\* GENMASK(h, l)
GENMASK(h, l) == (Pow2(h - l + 1) - 1) * Pow2(l)

ValMaxUnscaled(v, d) ==
    IF d.max = 0 THEN GENMASK(Width(v, d) - 1, 0) ELSE d.max

\* "if (!val_max) val_max = GENMASK(reg_width - 1, 0) * val_pitch;"
ValMax(v, d) ==
    IF d.max = 0 THEN GENMASK(Width(v, d) - 1, 0) * Pitch(d) ELSE d.max

\* the negation of "val < val_min || val > val_max"
InRange(v, d, val) == ~(val < d.min \/ val > ValMax(v, d))

\* the row is one the call works on
Selected(v, d, c) ==
    CASE v = "iqs7219" -> d.key = GrpKey7219(c.grp)
      [] v = "iqs323" -> d.grp = c.grp /\ d.key = c.key
      [] OTHER -> d.key = c.key /\ d.grp = c.grp /\ Size(v, d) <= 2

\* where the row's register is in the image: the word offset, or the
\* address "reg_addr + index * reg_size" of its first byte
Where(v, d, c) == IF v = "iqs9150" THEN d.off + c.index * Size(v, d) ELSE d.off

\* get_unaligned_le16 / put_unaligned_le16 on the byte image of the iqs9150
GetWord9150(img, a) == img[a] + 256 * img[a + 1]
PutWord9150(img, a, w) ==
    [img EXCEPT ![a] = w % 256, ![a + 1] = (w \div 256) % 256]

\* the register of the row as the builder reads it
Fetch(v, d, c, img) ==
    IF v = "iqs9150" /\ Size(v, d) = 2 THEN GetWord9150(img, Where(v, d, c))
    ELSE img[Where(v, d, c)]

\* the register of the row stored back, cut to the register's size
Store(v, d, c, img, w) ==
    IF v = "iqs9150"
    THEN IF Size(v, d) = 2 THEN PutWord9150(img, Where(v, d, c), w % 65536)
         ELSE [img EXCEPT ![Where(v, d, c)] = w % 256]
    ELSE [img EXCEPT ![Where(v, d, c)] = w % 65536]

\* "|= BIT(reg_shift)" and "&= ~BIT(reg_shift)"
SetBit(w, s) == BitOr(w, BIT(s))
ClearBit(w, s) == BitClear(w, BIT(s))

BoolDefaultKept(d, w) == w

BoolDefaultFlipped(d, w) == BitOr(w, BIT(d.shift)) - BitAnd(w, BIT(d.shift))

\* a boolean field forced to its default: set when inverted, else cleared
BoolDefault(d, w) == IF d.invert THEN SetBit(w, d.shift) ELSE ClearBit(w, d.shift)

\* a boolean field whose property is present
BoolPresent(d, w) == IF d.invert THEN ClearBit(w, d.shift) ELSE SetBit(w, d.shift)

EncodeNoClear(v, d, w, val) ==
    BitOr(w, IF d.subs # <<>> THEN d.subs[val + 1]
             ELSE ((val \div Pitch(d)) * Pow2(d.shift)) % 65536)

\* "&= ~GENMASK(reg_shift + reg_width - 1, reg_shift)", then
\* "|= val_subs[val]" or "|= (val / val_pitch << reg_shift)"
Encode(v, d, w, val) ==
    BitOr(BitClear(w, GENMASK(d.shift + Width(v, d) - 1, d.shift)),
          IF d.subs # <<>> THEN d.subs[val + 1]
          ELSE ((val \div Pitch(d)) * Pow2(d.shift)) % 65536)

AbsentResultEinval == -EINVAL

\* what the loop does for a scalar property that is not in the node
AbsentResult == CONTINUE

\* one pass of the loop over the property table, for row `d`: the image it
\* leaves and CONTINUE or the error parse_props returns
Step(v, d, c, f, img) ==
    LET val == f[d.name]
        word == Fetch(v, d, c, img)
        go(w) == [img |-> Store(v, d, c, img, w), ret |-> CONTINUE]
        stop(e) == [img |-> img, ret |-> e]
        scalar ==
          CASE val = Absent -> [img |-> img, ret |-> AbsentResult]
            [] val = Empty -> stop(-ENODATA)
            [] ~InRange(v, d, val) -> stop(-EINVAL)
            [] OTHER -> go(Encode(v, d, word, val))
    IN CASE ~Selected(v, d, c) -> [img |-> img, ret |-> CONTINUE]
         [] v = "iqs9150" ->
              IF c.index > d.span THEN stop(-EINVAL) ELSE scalar
         [] d.width = 1 ->
              IF val = Absent THEN go(BoolDefault(d, word))
              ELSE go(BoolPresent(d, BoolDefault(d, word)))
         [] OTHER -> scalar

\* the calls the model makes: iqs7219 on the SYS and CAP groups (both read
\* the device node) and on a channel group, whose child node may be
\* missing; iqs323 on a sensor group, the general group and the general
\* group with the touch key; iqs9150 on the SYS group and on one sense
\* node of the ALP group
PropCalls(v) ==
    CASE v = "iqs7219" ->
           { [grp |-> g, key |-> "none", index |-> 0, node |-> TRUE] :
               g \in {"sys", "cap", "chan_0"} }
           \cup { [grp |-> "chan_0", key |-> "none", index |-> 0, node |-> FALSE] }
      [] v = "iqs323" ->
           { [grp |-> "snsr", key |-> "none", index |-> 0, node |-> TRUE],
             [grp |-> "gen", key |-> "none", index |-> 0, node |-> TRUE],
             [grp |-> "gen", key |-> "touch", index |-> 0, node |-> TRUE] }
      [] OTHER ->
           { [grp |-> "sys", key |-> "none", index |-> 0, node |-> TRUE] }
           \cup { [grp |-> "alp", key |-> "span", index |-> i, node |-> TRUE] :
                    i \in {0, 12, 13} }

\* the rows the call works on
CallProps(v, c) ==
    SelectSeq(Props(v), LAMBDA d : Selected(v, d, c))

\* the rows whose properties the node of the call may hold: on the iqs7219
\* the SYS and CAP groups read the same node
NodeProps(v, c) ==
    IF v = "iqs7219" /\ c.grp \in {"sys", "cap"}
    THEN SelectSeq(Props(v), LAMBDA d : d.key \in {"sys", "cap"})
    ELSE CallProps(v, c)

Range(s) == { s[k] : k \in 1..Len(s) }

\* what the node may say about the property of row `d`
KeyValues(v, d) ==
    IF v # "iqs9150" /\ d.width = 1 THEN {Absent, Empty}
    ELSE {Absent, Empty, d.min, ValMax(v, d), ValMax(v, d) + 1}
         \cup (IF d.min > 0 THEN {d.min - 1} ELSE {})
         \cup (IF Pitch(d) > 1 THEN {Pitch(d) + 1} ELSE {})

\* the firmware nodes of a call; a missing node holds nothing
KeySources(v, c) ==
    LET rows == Range(NodeProps(v, c))
        names == { d.name : d \in rows }
        vals(n) == UNION { KeyValues(v, d) : d \in { r \in rows : r.name = n } }
    IN IF c.node
       THEN { f \in [names -> UNION { vals(n) : n \in names } \cup {Absent}] :
                \A n \in names :
                  f[n] \in (IF vals(n) = {} THEN {Absent} ELSE vals(n)) }
       ELSE { [n \in names |-> Absent] }

\* the registers of the image the call may touch
ImageDomain(v, c) ==
    UNION { IF Size(v, d) = 2 /\ v = "iqs9150"
            THEN {Where(v, d, c), Where(v, d, c) + 1}
            ELSE {Where(v, d, c)} : d \in Range(CallProps(v, c)) }

\* the images a call may find
Images(v, c) ==
    [ImageDomain(v, c) -> IF v = "iqs9150" THEN ImageBytes ELSE ImageWords]

\* probe has reached the configuration builder: parse_props is about to be
\* called on one group with one node and one image
InitProps ==
    /\ \E v \in Variants : BusIdle(v)
    /\ DrvQuiet
    /\ ExtParked
    /\ pp_call \in PropCalls(variant)
    /\ fw \in KeySources(variant, pp_call)
    /\ pp_setup \in Images(variant, pp_call)
    /\ pp_i = 0
    /\ images = <<pp_setup>>
    /\ rets = <<>>

\* parse_props returns `e` and leaves the image `img`
PropsReturn(e, img) ==
    /\ pp_setup' = img
    /\ rets' = Append(rets, e)
    /\ images' = Append(images, img)
    /\ Return(e)

\* parse_props is called; the iqs7219 returns 0 at once when the group
\* has a child node and the node is missing
ParsePropsCall ==
    /\ pc = "idle"
    /\ images # <<>>
    /\ Len(rets) < MaxRuns
    /\ IF variant = "iqs7219" /\ ~pp_call.node
       THEN /\ PropsReturn(0, pp_setup)
            /\ UNCHANGED pp_i
       ELSE /\ pp_i' = 1
            /\ pc' = "pp_loop"
            /\ UNCHANGED <<stack, error, pp_setup, images, rets>>
    /\ UNCHANGED <<pp_call, fw>>
    /\ UNCHANGED <<initVars, wlog, atiVars, devVars, cfgVars, passVars>>
    /\ UNCHANGED <<busVars, extVars>>

\* parse_props: one pass of the loop, or "return 0" behind it
ParsePropsStep ==
    /\ pc = "pp_loop"
    /\ IF pp_i > Len(Props(variant))
       THEN /\ PropsReturn(0, pp_setup)
            /\ UNCHANGED pp_i
       ELSE LET r == Step(variant, Props(variant)[pp_i], pp_call, fw, pp_setup)
            IN IF r.ret = CONTINUE
               THEN /\ pp_setup' = r.img
                    /\ pp_i' = pp_i + 1
                    /\ UNCHANGED <<pc, stack, error, images, rets>>
               ELSE /\ PropsReturn(r.ret, r.img)
                    /\ UNCHANGED pp_i
    /\ UNCHANGED <<pp_call, fw>>
    /\ UNCHANGED <<initVars, wlog, atiVars, devVars, cfgVars, passVars>>
    /\ UNCHANGED <<busVars, extVars>>

NextProps == ParsePropsCall \/ ParsePropsStep

SpecProps == InitProps /\ [][NextProps]_vars

(* ------------------------------------------------------------------ *)
(* The callbacks as contexts: interrupt line, mutex, bus, device state *)
(* ------------------------------------------------------------------ *)
\* everything but the contexts
baseVars == <<busVars, callVars, initVars, wlog, atiVars, devVars, cfgVars,
              passVars, propVars, sideVars, probe, pm, mux, comms_reg>>

\* one step of a callback: disable_irq, enable_irq, mutex_lock,
\* mutex_unlock, the start and the end of a handshake-plus-transaction
\* sequence, a read of fields of the device state, the start and the end
\* of an update of fields of the device state
Tok(k) == <<[k |-> k, f |-> {}]>>
Rd(f) == <<[k |-> "rd", f |-> f]>>
Wr(f) == <<[k |-> "wr", f |-> f], [k |-> "wr_end", f |-> f]>>
Bus == Tok("bus") \o Tok("bus_end")

\* iqs7219_report_sync: the status read fails; the pass decodes the read
ReportSyncPaths7219 ==
    { Tok("mutex_lock") \o Bus \o Tok("mutex_unlock"),
      Tok("mutex_lock") \o Bus
        \o Rd({"scan_mux", "event_enable", "trig_enable", "pxs_flags"})
        \o Wr({"scan_data", "timestamp", "pxs_flags"})
        \o Tok("mutex_unlock") }

ReportAsyncPathsBare7219 == ReportSyncPaths7219

\* iqs7219_report_async
ReportAsyncPaths7219 ==
    { Tok("disable_irq") \o p \o Tok("enable_irq") : p \in ReportSyncPaths7219 }

\* iqs7219_trigger_consumer behind the copy of the scan data: the buffer
\* is pushed with iqs7219->timestamp, or nothing is pushed
ConsumerTails7219 ==
    { Tok("mutex_lock") \o Rd({"scan_data"}) \o Tok("mutex_unlock") \o Rd({"timestamp"}),
      Tok("mutex_lock") \o Rd({"scan_data"}) \o Tok("mutex_unlock") }

\* iqs7219_irq: report_sync, which on success may poll the device's own
\* trigger and so run the trigger consumer in the interrupt thread
IrqPaths7219 ==
    ReportSyncPaths7219
    \cup { p \o q : p \in { r \in ReportSyncPaths7219 : Len(r) > 4 },
                    q \in ConsumerTails7219 }

\* iqs7219_trigger_consumer on another device's trigger: report_async
\* first, and the buffer is pushed when it worked
ConsumerPaths7219 ==
    { p \in ReportAsyncPaths7219 : Len(p) = 6 }
    \cup { p \o Tok("mutex_lock") \o Rd({"scan_data"}) \o Tok("mutex_unlock")
             \o Rd({"timestamp"}) :
           p \in { r \in ReportAsyncPaths7219 : Len(r) > 6 } }

\* write_event_config (field event_enable) and set_trigger_state (field
\* trig_enable): without the communication setup register nothing is
\* written to the device; the write fails; the write works
MaskWritePaths7219(field) ==
    LET head == Tok("disable_irq") \o Tok("mutex_lock")
                  \o Rd({"trig_enable", "event_enable"})
        tail == Tok("mutex_unlock") \o Tok("enable_irq")
    IN { head \o Wr({field}) \o tail,
         head \o Bus \o tail,
         head \o Bus \o Wr({field}) \o tail }

\* the paths of the callbacks of the iqs7219
Paths7219(cb) ==
    CASE cb = "irq" -> IrqPaths7219
      [] cb = "read_raw" -> ReportAsyncPaths7219
      [] cb = "trigger_consumer" -> ConsumerPaths7219
      [] cb = "read_rate" ->
           { Tok("mutex_lock") \o Rd({"sys_setup"}) \o Tok("mutex_unlock") }
      [] cb = "write_rate" ->
           { <<>>,
             Tok("disable_irq") \o Tok("mutex_lock") \o Rd({"sys_setup"}) \o Bus
               \o Tok("mutex_unlock") \o Tok("enable_irq"),
             Tok("disable_irq") \o Tok("mutex_lock") \o Rd({"sys_setup"}) \o Bus
               \o Wr({"sys_setup"}) \o Tok("mutex_unlock") \o Tok("enable_irq") }
      [] cb = "read_event_config" -> { Rd({"event_enable"}) }
      [] cb = "write_event_config" -> MaskWritePaths7219("event_enable")
      [] cb = "set_trigger_state" -> MaskWritePaths7219("trig_enable")
      [] cb = "scan_mux_set" ->
           { <<>>, Tok("mutex_lock") \o Wr({"scan_mux"}) \o Tok("mutex_unlock") }
      [] cb = "scan_mux_get" -> { Rd({"scan_mux"}) }

\* iqs323_process_events: the status read fails; the device is set up
\* again; the pass decodes the read and finds the cached mode right; it
\* writes the other mode
ProcessEventsPaths323 ==
    { Bus,
      Bus \o Bus \o Wr({"intf_mode"}) \o Bus,
      Bus \o Rd({"intf_mode"}),
      Bus \o Rd({"intf_mode"}) \o Bus \o Wr({"intf_mode"}) }

\* the paths of the callbacks of the iqs323
Paths323(cb) ==
    CASE cb = "irq" -> ProcessEventsPaths323
      [] cb = "report_async" ->
           { Tok("disable_irq") \o p \o Tok("enable_irq") :
               p \in ProcessEventsPaths323 }
      [] cb = "move_status_show" ->
           { Tok("disable_irq") \o Bus \o Tok("enable_irq"),
             Tok("disable_irq") \o Bus \o Bus \o Wr({"intf_mode"}) \o Bus
               \o Tok("enable_irq") }
      [] cb = "runtime_pm" ->
           { <<>>,
             Tok("disable_irq") \o Rd({"intf_mode"}) \o Bus \o Wr({"intf_mode"})
               \o Tok("enable_irq"),
             Tok("disable_irq") \o Rd({"intf_mode"}) \o Bus \o Wr({"intf_mode"})
               \o Bus \o Tok("enable_irq"),
             Tok("disable_irq") \o Rd({"intf_mode"}) \o Bus \o Wr({"intf_mode"})
               \o Bus \o Bus \o Wr({"intf_mode"}) \o Bus \o Tok("enable_irq") }

\* the paths of the callbacks of the iqs9150: iqs9150_report with and
\* without the recovery from a reset, suspend and resume
Paths9150(cb) ==
    CASE cb = "irq" ->
           { Bus, Bus \o Rd({"status"}),
             Bus \o Rd({"status"}) \o Wr({"comms_mode"}) \o Bus \o Wr({"comms_mode"}) \o Bus }
      [] cb = "suspend" ->
           { <<>>, Tok("disable_irq") \o Bus \o Tok("enable_irq") }
      [] cb = "resume" ->
           { <<>>, Tok("disable_irq") \o Bus \o Tok("enable_irq") }

Paths(v, cb) ==
    CASE v = "iqs7219" -> Paths7219(cb)
      [] v = "iqs323" -> Paths323(cb)
      [] OTHER -> Paths9150(cb)

\* the callbacks of the system sleep transitions, which run one at a time
\* and with the callers of the other callbacks frozen
PmOps == {"runtime_pm", "suspend", "resume"}

\* the callbacks a caller of the command path may run
CommandOps(v) ==
    CASE v = "iqs7219" ->
           {"read_raw", "trigger_consumer", "read_rate", "write_rate",
            "read_event_config", "write_event_config", "set_trigger_state",
            "scan_mux_set", "scan_mux_get"}
      [] v = "iqs323" -> {"report_async", "move_status_show", "runtime_pm"}
      [] OTHER -> {"suspend", "resume"}

\* the contexts of the command path
Callers == Contexts \ {"irq"}

\* the step context `t` is at
At(t) == ctx[t].path[ctx[t].i]

\* context `t` is at a step of kind `k`
Before(t, k) ==
    /\ ctx[t].op # "idle"
    /\ ctx[t].i <= Len(ctx[t].path)
    /\ At(t).k = k

\* context `t` has done its step
Advance(t, d, b) ==
    ctx' = [ctx EXCEPT ![t].i = @ + 1, ![t].dis = @ + d, ![t].bare = @ \cup b]

\* the interrupt thread starts the handler: the line is enabled
IrqEnter ==
    /\ ctx["irq"].op = "idle"
    /\ irq_depth = 0
    /\ \E p \in Paths(variant, "irq") :
         ctx' = [ctx EXCEPT !["irq"] =
                   [op |-> "irq", path |-> p, i |-> 1, dis |-> 0, bare |-> {}]]
    /\ UNCHANGED <<lock, irq_depth, onbus, mutating>>
    /\ UNCHANGED baseVars

\* a caller enters a callback of the command path
CommandEnter(t) ==
    /\ t \in Callers
    /\ ctx[t].op = "idle"
    /\ \E cb \in CommandOps(variant) :
         /\ \A u \in Callers \ {t} :
              /\ ctx[u].op \notin PmOps
              /\ cb \in PmOps => ctx[u].op = "idle"
         /\ \E p \in Paths(variant, cb) :
              ctx' = [ctx EXCEPT ![t] =
                        [op |-> cb, path |-> p, i |-> 1, dis |-> 0, bare |-> {}]]
    /\ UNCHANGED <<lock, irq_depth, onbus, mutating>>
    /\ UNCHANGED baseVars

\* the callback returns
CtxReturn(t) ==
    /\ ctx[t].op # "idle"
    /\ ctx[t].i > Len(ctx[t].path)
    /\ ctx' = [ctx EXCEPT ![t].op = "idle", ![t].path = <<>>, ![t].i = 0]
    /\ UNCHANGED <<lock, irq_depth, onbus, mutating>>
    /\ UNCHANGED baseVars

\* disable_irq: returns once the handler does not run
DisableIrq(t) ==
    /\ Before(t, "disable_irq")
    /\ ctx["irq"].op = "idle"
    /\ irq_depth' = irq_depth + 1
    /\ Advance(t, 1, {})
    /\ UNCHANGED <<lock, onbus, mutating>>
    /\ UNCHANGED baseVars

\* enable_irq
EnableIrq(t) ==
    /\ Before(t, "enable_irq")
    /\ irq_depth' = irq_depth - 1
    /\ Advance(t, -1, {})
    /\ UNCHANGED <<lock, onbus, mutating>>
    /\ UNCHANGED baseVars

\* mutex_lock(&iqs7219->lock)
MutexLock(t) ==
    /\ Before(t, "mutex_lock")
    /\ lock = "none"
    /\ lock' = t
    /\ Advance(t, 0, {})
    /\ UNCHANGED <<irq_depth, onbus, mutating>>
    /\ UNCHANGED baseVars

\* mutex_unlock(&iqs7219->lock)
MutexUnlock(t) ==
    /\ Before(t, "mutex_unlock")
    /\ lock' = "none"
    /\ Advance(t, 0, {})
    /\ UNCHANGED <<irq_depth, onbus, mutating>>
    /\ UNCHANGED baseVars

\* a burst read or write starts its handshake / ends its transaction
BusStep(t) ==
    /\ \/ Before(t, "bus") /\ onbus' = onbus \cup {t}
       \/ Before(t, "bus_end") /\ onbus' = onbus \ {t}
    /\ Advance(t, 0, {})
    /\ UNCHANGED <<lock, irq_depth, mutating>>
    /\ UNCHANGED baseVars

\* fields of the device state are read, or an update of them starts or
\* ends; the fields touched without the mutex are remembered
StateStep(t) ==
    /\ \/ Before(t, "rd") /\ UNCHANGED mutating
       \/ Before(t, "wr") /\ mutating' = mutating \cup {t}
       \/ Before(t, "wr_end") /\ mutating' = mutating \ {t}
    /\ Advance(t, 0, IF lock = t THEN {} ELSE At(t).f)
    /\ UNCHANGED <<lock, irq_depth, onbus>>
    /\ UNCHANGED baseVars

\* the device is probed and idle; callbacks come in any order
InitCtx ==
    /\ \E v \in Variants : BusIdle(v)
    /\ DrvQuiet
    /\ PropsParked
    /\ ExtParked

NextCtx ==
    \/ IrqEnter
    \/ \E t \in Contexts : CommandEnter(t)
    \/ \E t \in Contexts : CtxReturn(t)
    \/ \E t \in Contexts : DisableIrq(t)
    \/ \E t \in Contexts : EnableIrq(t)
    \/ \E t \in Contexts : MutexLock(t)
    \/ \E t \in Contexts : MutexUnlock(t)
    \/ \E t \in Contexts : BusStep(t)
    \/ \E t \in Contexts : StateStep(t)

SpecCtx == InitCtx /\ [][NextCtx]_vars

(* ------------------------------------------------------------------ *)
(* probe: the order of bring-up                                        *)
(* ------------------------------------------------------------------ *)
\* one call probe makes: its name, the part of bring-up it belongs to and
\* the errors it may return
ProbeCallOf(name, part, errs) == [name |-> name, part |-> part, errs |-> errs]

\* errors of the bus, of a validation and of a read of a property
BusErrors == {-EIO, -ETIMEDOUT}
ParseErrors == {-EINVAL, -ENODATA}

\* iqs7219_probe from the hardware reset on, with the calls of
\* iqs7219_parse_all and the two halves of iqs7219_dev_init(WRITE)
ProbeCalls7219 ==
    << ProbeCallOf("hard_reset", "setup", BusErrors),
       ProbeCallOf("read_prod_num", "setup", BusErrors \cup {-EINVAL}),
       ProbeCallOf("dev_init_read", "setup", BusErrors),
       ProbeCallOf("parse_props_pxs_0", "parse", ParseErrors),
       ProbeCallOf("parse_props_pxs_1", "parse", ParseErrors),
       ProbeCallOf("parse_max_counts", "parse", ParseErrors),
       ProbeCallOf("parse_props_cap", "parse", ParseErrors),
       ProbeCallOf("parse_props_ati_0", "parse", ParseErrors),
       ProbeCallOf("parse_chan_0", "parse", ParseErrors),
       ProbeCallOf("parse_props_ati_1", "parse", ParseErrors),
       ProbeCallOf("parse_chan_1", "parse", ParseErrors),
       ProbeCallOf("parse_props_sys", "parse", ParseErrors),
       ProbeCallOf("dev_init_write", "write", BusErrors),
       ProbeCallOf("ati_trigger", "write", BusErrors),
       ProbeCallOf("trigger_register", "register", {-ENOMEM}),
       ProbeCallOf("triggered_buffer_setup", "register", {-ENOMEM}),
       ProbeCallOf("gpiod_to_irq", "register", {-EINVAL}),
       ProbeCallOf("request_irq", "irq", {-EBUSY}),
       ProbeCallOf("device_register", "register", {-ENOMEM}) >>

\* iqs323_probe from the hardware reset on, with one call of
\* iqs323_parse_reg_grp for each of the register groups
ProbeCalls323 ==
    << ProbeCallOf("hard_reset", "setup", BusErrors),
       ProbeCallOf("read_ver_info", "setup", BusErrors \cup {-EINVAL}),
       ProbeCallOf("dev_init_read", "setup", BusErrors \cup {-ENOMEM}) >>
    \o [g \in 1..IQS323_NUM_REG_GRPS |->
          ProbeCallOf("parse_reg_grp_" \o ToString(g), "parse", ParseErrors)]
    \o << ProbeCallOf("dev_init_write", "write", BusErrors \cup {-ENOMEM}),
          ProbeCallOf("ati_trigger", "write", BusErrors),
          ProbeCallOf("report_sync", "write", BusErrors),
          ProbeCallOf("input_register_device", "register", {-ENOMEM}),
          ProbeCallOf("gpiod_to_irq", "register", {-EINVAL}),
          ProbeCallOf("request_irq", "irq", {-EBUSY}) >>

ProbeCalls(v) == IF v = "iqs7219" THEN ProbeCalls7219 ELSE ProbeCalls323

\* probe ignoring what the parsing returned
ProbeFailsParseIgnored(c, r) == r # 0 /\ c.part # "parse"

\* `if (error) return error;` behind each call
ProbeFails(c, r) == r # 0

\* the variants whose probe is modelled
ProbeVariants == {"iqs7219", "iqs323"}

\* the driver core calls probe
ProbeEnter ==
    /\ probe.pc = "idle"
    /\ probe' = [probe EXCEPT !.pc = "run", !.i = 1]
    /\ UNCHANGED <<busVars, callVars, initVars, wlog, atiVars, devVars, cfgVars,
                   passVars, propVars, comms_reg, ctxVars, sideVars,
                   pm, mux>>

\* probe makes its next call and returns at once when the call fails;
\* the iqs7219 stops with 0 behind dev_init(WRITE) in stand-alone mode
ProbeStep ==
    /\ probe.pc = "run"
    /\ \E r \in {0} \cup ProbeCalls(variant)[probe.i].errs :
         LET c == ProbeCalls(variant)[probe.i]
             made == [probe EXCEPT
                        !.calls = Append(@, [name |-> c.name, part |-> c.part,
                                             r |-> r])]
         IN IF ProbeFails(c, r)
            THEN probe' = [made EXCEPT !.pc = "returned", !.ret = r]
            ELSE \/ /\ probe.i < Len(ProbeCalls(variant))
                    /\ probe' = [made EXCEPT !.i = @ + 1]
                 \/ /\ \/ probe.i = Len(ProbeCalls(variant))
                       \/ variant = "iqs7219" /\ c.name = "ati_trigger"
                    /\ probe' = [made EXCEPT !.pc = "returned", !.ret = 0]
    /\ UNCHANGED <<busVars, callVars, initVars, wlog, atiVars, devVars, cfgVars,
                   passVars, propVars, comms_reg, ctxVars, sideVars,
                   pm, mux>>

InitProbe ==
    /\ \E v \in ProbeVariants : BusIdle(v)
    /\ DrvQuiet
    /\ PropsParked
    /\ ExtParked

NextProbe == ProbeEnter \/ ProbeStep

SpecProbe == InitProbe /\ [][NextProbe]_vars

(* ------------------------------------------------------------------ *)
(* suspend and resume                                                  *)
(* ------------------------------------------------------------------ *)
PmVariants == {"iqs323", "iqs9150"}

\* one call a sleep transition has made: its name, what it returned and,
\* for the read of the product number, whether the word read matched
PmCall(name, r, m) == [name |-> name, r |-> r, m |-> m]

PmDidTo(c, to) ==
    pm' = [pm EXCEPT !.calls = Append(@, c), !.error = c.r, !.pc = to]

\* the retry loop of iqs323_runtime_pm running once more than it may
PmRetryAgainOffByOne(i) == i <= IQS323_NUM_RETRIES

\* for (i = 0; i < IQS323_NUM_RETRIES; i++)
PmRetryAgain(i) == i < IQS323_NUM_RETRIES

\* the identity is read back behind a resume as well
PmModeOnlyNever(mode) == FALSE

\* "|| power_mode == IQS323_POWER_MODE_USER": iqs323_resume passes the user
\* mode, iqs323_suspend the halt mode
PmModeOnly(mode) == mode = "resume"

\* iqs323_suspend, iqs323_resume, iqs9150_suspend, iqs9150_resume up to
\* disable_irq: nothing is done on a device that may wake the system
PmEnter ==
    /\ pm.pc = "idle"
    /\ \E mode \in {"suspend", "resume"}, may_wakeup \in BOOLEAN :
         IF may_wakeup
         THEN pm' = [pm EXCEPT !.pc = "returned", !.mode = mode, !.ret = 0]
         ELSE pm' = [pm EXCEPT
                       !.pc = IF variant = "iqs323" THEN "loop" ELSE "control",
                       !.mode = mode,
                       !.calls = <<PmCall("disable_irq", 0, TRUE)>>]
    /\ UNCHANGED <<busVars, callVars, initVars, wlog, atiVars, devVars, cfgVars,
                   passVars, propVars, comms_reg, ctxVars, sideVars,
                   probe, mux>>

\* iqs323_runtime_pm: the for statement
PmLoop323 ==
    /\ pm.pc = "loop"
    /\ pm' = [pm EXCEPT !.pc = IF PmRetryAgain(pm.i) THEN "write_mode" ELSE "out"]
    /\ UNCHANGED <<busVars, callVars, initVars, wlog, atiVars, devVars, cfgVars,
                   passVars, propVars, comms_reg, ctxVars, sideVars,
                   probe, mux>>

\* iqs323_runtime_pm: write the mode; break on an error or in user mode
PmWriteMode323 ==
    /\ pm.pc = "write_mode"
    /\ \E e \in {0} \cup BusErrors :
         PmDidTo(PmCall("write_mode", e, TRUE),
                 IF e # 0 \/ PmModeOnly(pm.mode) THEN "out" ELSE "read_prod_num")
    /\ UNCHANGED <<busVars, callVars, initVars, wlog, atiVars, devVars, cfgVars,
                   passVars, propVars, comms_reg, ctxVars, sideVars,
                   probe, mux>>

\* iqs323_runtime_pm: msleep, then read the product number; break on an
\* error or when it is the one of the device
PmReadProdNum323 ==
    /\ pm.pc = "read_prod_num"
    /\ \E e \in {0} \cup BusErrors, m \in BOOLEAN :
         /\ e # 0 => m
         /\ PmDidTo(PmCall("read_prod_num", e, m),
                    IF e # 0 \/ m THEN "out" ELSE "hard_reset")
    /\ UNCHANGED <<busVars, callVars, initVars, wlog, atiVars, devVars, cfgVars,
                   passVars, propVars, comms_reg, ctxVars, sideVars,
                   probe, mux>>

\* iqs323_runtime_pm: reset the device; break on an error
PmHardReset323 ==
    /\ pm.pc = "hard_reset"
    /\ \E e \in {0} \cup BusErrors :
         PmDidTo(PmCall("hard_reset", e, TRUE),
                 IF e # 0 THEN "out" ELSE "dev_init")
    /\ UNCHANGED <<busVars, callVars, initVars, wlog, atiVars, devVars, cfgVars,
                   passVars, propVars, comms_reg, ctxVars, sideVars,
                   probe, mux>>

\* iqs323_runtime_pm: dev_init(WRITE); break on an error, else i++
PmDevInit323 ==
    /\ pm.pc = "dev_init"
    /\ \E e \in {0} \cup BusErrors :
         pm' = [pm EXCEPT !.calls = Append(@, PmCall("dev_init_write", e, TRUE)),
                          !.error = e,
                          !.pc = IF e # 0 THEN "out" ELSE "loop",
                          !.i = IF e # 0 THEN @ ELSE @ + 1]
    /\ UNCHANGED <<busVars, callVars, initVars, wlog, atiVars, devVars, cfgVars,
                   passVars, propVars, comms_reg, ctxVars, sideVars,
                   probe, mux>>

\* iqs323_runtime_pm: enable_irq and
\* "return i < IQS323_NUM_RETRIES ? error : -EIO;"
PmOut323 ==
    /\ variant = "iqs323"
    /\ pm.pc = "out"
    /\ pm' = [pm EXCEPT !.calls = Append(@, PmCall("enable_irq", 0, TRUE)),
                        !.pc = "returned",
                        !.ret = IF pm.i < IQS323_NUM_RETRIES THEN pm.error
                                ELSE -EIO]
    /\ UNCHANGED <<busVars, callVars, initVars, wlog, atiVars, devVars, cfgVars,
                   passVars, propVars, comms_reg, ctxVars, sideVars,
                   probe, mux>>

\* iqs9150_suspend and iqs9150_resume: one write of the control register
PmControl9150 ==
    /\ pm.pc = "control"
    /\ \E e \in {0} \cup BusErrors :
         PmDidTo(PmCall("write_control", e, TRUE), "out9150")
    /\ UNCHANGED <<busVars, callVars, initVars, wlog, atiVars, devVars, cfgVars,
                   passVars, propVars, comms_reg, ctxVars, sideVars,
                   probe, mux>>

\* iqs9150_suspend and iqs9150_resume: enable_irq and "return error;"
PmOut9150 ==
    /\ pm.pc = "out9150"
    /\ pm' = [pm EXCEPT !.calls = Append(@, PmCall("enable_irq", 0, TRUE)),
                        !.pc = "returned",
                        !.ret = pm.error]
    /\ UNCHANGED <<busVars, callVars, initVars, wlog, atiVars, devVars, cfgVars,
                   passVars, propVars, comms_reg, ctxVars, sideVars,
                   probe, mux>>

InitPm ==
    /\ \E v \in PmVariants : BusIdle(v)
    /\ DrvQuiet
    /\ PropsParked
    /\ ExtParked

NextPm ==
    \/ PmEnter
    \/ PmLoop323
    \/ PmWriteMode323
    \/ PmReadProdNum323
    \/ PmHardReset323
    \/ PmDevInit323
    \/ PmOut323
    \/ PmControl9150
    \/ PmOut9150

SpecPm == InitPm /\ [][NextPm]_vars

(* ------------------------------------------------------------------ *)
(* iqs7219: the scan multiplexer                                       *)
(* ------------------------------------------------------------------ *)
\* values of "azoteq,scan-mux" in a channel's node
MuxValues == 0..(IQS7219_NUM_SCAN + 1)

\* what report_sync may find behind the end of scan[]
StackWords == {0, 43690}

\* the value report_sync puts in scan[k]: a mark of the slot
ScanSlot(k) == 100 + k

\* "if (val > IQS7219_NUM_SCAN) return -EINVAL;" in iqs7219_parse_chan and
\* "if (scan_mux > IQS7219_NUM_SCAN) return -EINVAL;" in iqs7219_scan_mux_set
ScanMuxRejected(v) == v > IQS7219_NUM_SCAN

\* probe has parsed every channel without an error: the device is registered
MuxRegistered == mux.n = IQS7219_NUM_CHAN /\ ~(mux.from = "parse" /\ mux.ret # 0)

\* iqs7219_parse_chan of channel mux.n, from "azoteq,scan-mux" on: the
\* property may be absent, unreadable as u32, or hold a value
MuxParseChan ==
    /\ variant = "iqs7219"
    /\ mux.n < IQS7219_NUM_CHAN
    /\ mux.from \in {"none", "parse"}
    /\ mux.ret = 0
    /\ \E v \in {Absent, Empty} \cup MuxValues :
         mux' = IF v = Absent
                THEN [mux EXCEPT !.n = @ + 1, !.from = "parse", !.ret = 0]
                ELSE IF v = Empty
                THEN [mux EXCEPT !.from = "parse", !.ret = -EINVAL]
                ELSE IF ScanMuxRejected(v)
                THEN [mux EXCEPT !.from = "parse", !.ret = -EINVAL]
                ELSE [mux EXCEPT !.sel[mux.n + 1] = v, !.src[mux.n + 1] = "parse",
                                 !.n = @ + 1, !.from = "parse", !.ret = 0]
    /\ UNCHANGED <<busVars, callVars, initVars, wlog, atiVars, devVars, cfgVars,
                   passVars, propVars, comms_reg, ctxVars, sideVars,
                   probe, pm>>

\* iqs7219_scan_mux_set, called by iio_enum_write with the index of the name
\* written among the ARRAY_SIZE(iqs7219_scan_names) names
MuxSet ==
    /\ variant = "iqs7219"
    /\ MuxRegistered
    /\ \E c \in 1..IQS7219_NUM_CHAN, v \in 0..(IQS7219_NUM_SCAN - 1) :
         mux' = IF ScanMuxRejected(v)
                THEN [mux EXCEPT !.from = "set", !.ret = -EINVAL]
                ELSE [mux EXCEPT !.sel[c] = v, !.src[c] = "set",
                                 !.from = "set", !.ret = 0]
    /\ UNCHANGED <<busVars, callVars, initVars, wlog, atiVars, devVars, cfgVars,
                   passVars, propVars, comms_reg, ctxVars, sideVars,
                   probe, pm>>

\* iqs7219_report_sync: "scan_data[i] = scan[scan_mux[i]];" for each
\* channel; an index behind the array reads whatever the stack holds there
MuxReport ==
    /\ variant = "iqs7219"
    /\ MuxRegistered
    /\ \E w \in [1..IQS7219_NUM_CHAN -> StackWords] :
         mux' = [mux EXCEPT
                   !.data = [c \in 1..IQS7219_NUM_CHAN |->
                               IF mux.sel[c] < IQS7219_NUM_SCAN
                               THEN ScanSlot(mux.sel[c])
                               ELSE w[c]],
                   !.oob = @ \/ \E c \in 1..IQS7219_NUM_CHAN :
                                  mux.sel[c] >= IQS7219_NUM_SCAN,
                   !.from = "report",
                   !.ret = 0]
    /\ UNCHANGED <<busVars, callVars, initVars, wlog, atiVars, devVars, cfgVars,
                   passVars, propVars, comms_reg, ctxVars, sideVars,
                   probe, pm>>

InitMux ==
    /\ BusIdle("iqs7219")
    /\ DrvQuiet
    /\ PropsParked
    /\ ExtParked

NextMux == MuxParseChan \/ MuxSet \/ MuxReport

SpecMux == InitMux /\ [][NextMux]_vars

(* ------------------------------------------------------------------ *)
(* The operations under fairness                                        *)
(* ------------------------------------------------------------------ *)
\* one of three: a burst read or write is run on the transport with the
\* drivers and the sleep transitions out of the way; the drivers run their
\* operations with each bus access returning its result; a sleep transition
\* runs.  A thread that can take a step takes one: each wait sleeps at most
\* for its timeout and nothing else holds the thread back.
InitLive ==
    \/ BusInit /\ DrvQuietAt("off") /\ PropsParked /\ ExtParkedAt("off")
    \/ Init7219At("off")
    \/ Init323At("off")
    \/ Init9150At("off")
    \/ /\ \E v \in PmVariants : BusIdle(v)
       /\ DrvQuietAt("off")
       /\ PropsParked
       /\ ExtParked

NextLive == BusNext \/ NextDrv \/ NextPm

SpecLive == InitLive /\ [][NextLive]_vars /\ WF_vars(NextLive)

(* ================================================================== *)
(* Properties of the device synchroniser and the status decode         *)
(* ================================================================== *)
\* kinds of wlog entries made by dev_init / init_device itself
InitKinds == {"ack", "comms_rd", "hold", "grp", "timeout", "mask"}

\* kinds of wlog entries that belong to the ATI trigger
AtiKinds == {"setup_rd", "redo", "restore", "ati"}

\* kinds of wlog entries that are register writes
WriteKinds == {"ack", "hold", "grp", "timeout", "mask", "redo", "restore",
               "ati", "mode"}

\* the positions of `log` that hold an entry of one of `kinds`
Positions(log, kinds) == {k \in DOMAIN log : log[k].k \in kinds}

\* group `g` was written `n` times with success among the first `upto` entries
GroupWritten(g, n, upto) ==
    Cardinality({k \in 1..upto :
                   wlog[k].k = "grp" /\ wlog[k].g = g /\ wlog[k].e = 0}) = n

\* every register group of the variant was written among the first `upto`
\* entries: 8 groups (iqs7219); 7 groups, 3 rows for each of the first two
\* (iqs323); the register buffer and, if valid, the engineering buffer
AllGroupsWritten(upto) ==
    CASE variant = "iqs7219" -> \A g \in 0..7 : GroupWritten(g, 1, upto)
      [] variant = "iqs323" ->
           \A g \in 0..6 : GroupWritten(g, IF g < 2 THEN 3 ELSE 1, upto)
      [] OTHER -> /\ GroupWritten(0, 1, upto)
                  /\ eng_word # 61166 => GroupWritten(1, 1, upto)

\* the current log belongs to a writeAll
WriteAllLog == dir = "WRITE" /\ init_state # "idle"

\* C4: in writeAll the first register write is the reset acknowledge, every
\* group write follows it, the event-mask program follows all group writes,
\* the ATI trigger is issued only once all of these have succeeded, and a
\* failing step is the last one and its error is what writeAll returns.
C4_WriteAllOrder ==
    WriteAllLog =>
      LET writes == Positions(wlog, WriteKinds)
      IN /\ \A k \in writes :
              (\A j \in writes : k <= j) => wlog[k].k = "ack"
         /\ \A k \in Positions(wlog, {"grp", "hold", "timeout", "mask"}) :
              \E j \in 1..(k - 1) : wlog[j].k = "ack" /\ wlog[j].e = 0
         /\ \A k \in Positions(wlog, {"mask"}) :
              /\ AllGroupsWritten(k - 1)
              /\ \A j \in Positions(wlog, {"grp"}) : j < k
         /\ \A k \in Positions(wlog, AtiKinds) :
              /\ \A j \in 1..(k - 1) : wlog[j].k \in InitKinds => wlog[j].e = 0
              /\ \E j \in 1..(k - 1) : wlog[j].k = "ack"
              /\ AllGroupsWritten(k - 1)
              /\ variant = "iqs7219" /\ comms_setup # 0 =>
                   \E j \in 1..(k - 1) : wlog[j].k = "mask"
         /\ \A k \in Positions(wlog, InitKinds \cup {"ati"}) :
              wlog[k].e # 0 =>
                /\ k = Len(wlog)
                /\ init_state = "returned"
                /\ init_err = wlog[k].e
         /\ init_state = "returned" /\ init_err = -ENOMEM =>
              Positions(wlog, AtiKinds) = {}
         /\ init_state = "returned" /\ ati_state = "returned" =>
              init_err = ati_err

\* C4 witness: an iqs7219 decode pass read the reset flag and its writeAll
\* went through the acknowledge, the groups, the event mask and ATI
C4_Witness ==
    /\ variant = "iqs7219" /\ acted = "init"
    /\ init_state = "returned" /\ init_err = 0
    /\ Positions(wlog, {"mask"}) # {}
    /\ Positions(wlog, {"restore"}) # {}

\* C5: iqs7219_ati_trigger: once the status reads are [active, active,
\* neither] the call has returned, with success unless the write that
\* restores the mode failed on the bus; when all 5 attempts ended with the
\* ATI-error flag the redo-ATI command was written exactly 5 times and the
\* call returned -ETIMEDOUT; -ETIMEDOUT is returned in no other way.
C5_AtiOutcome7219 ==
    variant = "iqs7219" =>
      /\ aan = 3 =>
           /\ ati_state = "returned"
           /\ wlog[Len(wlog)].k = "restore"
           /\ ati_err = wlog[Len(wlog)].e
      /\ ati_state = "returned" /\ err_only /\ ati_i = 5 =>
           redo_writes = 5 /\ ati_err = -ETIMEDOUT
      /\ ati_state = "returned" /\ ati_err = -ETIMEDOUT =>
           redo_writes = 5 /\ ati_i = 5

\* C5 witness: five attempts, each ended by the ATI-error flag
C5_Witness ==
    /\ variant = "iqs7219" /\ ati_state = "returned"
    /\ err_only /\ ati_i = 5 /\ redo_writes = 5 /\ ati_err = -ETIMEDOUT

C7_AtiWrites7219 ==
    variant = "iqs7219" =>
      /\ \A k \in Positions(wlog, {"redo"}) :
           /\ BitAnd(wlog[k].v, IQS7219_SYS_SETUP_INTF_MODE_MASK) = 0
           /\ BitAnd(wlog[k].v, IQS7219_SYS_SETUP_PWR_MODE_MASK) = 0
           /\ Test(wlog[k].v, IQS7219_SYS_SETUP_REDO_ATI)
      /\ ati_state = "returned" /\ ati_err = 0 =>
           LET last == wlog[Len(wlog)]
           IN /\ last.k = "restore" /\ last.e = 0
              /\ BitAnd(last.v, IQS7219_SYS_SETUP_INTF_MODE_MASK) = intf_mode
              /\ \E k \in Positions(wlog, {"setup_rd"}) :
                   /\ last.v - BitAnd(last.v, IQS7219_SYS_SETUP_INTF_MODE_MASK)
                      = wlog[k].v - BitAnd(wlog[k].v, IQS7219_SYS_SETUP_INTF_MODE_MASK)
                   /\ Test(last.v, IQS7219_SYS_SETUP_REDO_ATI)
                      = Test(wlog[k].v, IQS7219_SYS_SETUP_REDO_ATI)

\* C7 witness: event mode configured, success after a second redo-ATI write
C7_Witness ==
    /\ variant = "iqs7219" /\ ati_state = "returned" /\ ati_err = 0
    /\ intf_mode = IQS7219_SYS_SETUP_INTF_MODE_EVENT
    /\ redo_writes = 2

\* the ATI trigger has written to the system setup register
AtiHasWritten == Positions(wlog, {"redo", "restore"}) # {}

\* the last write of the ATI trigger to the system setup register
LastSetupWrite ==
    LET at == Positions(wlog, {"redo", "restore"})
    IN wlog[CHOOSE k \in at : \A j \in at : j <= k]

\* C8 as stated: after the ATI trigger has returned, by whichever exit, the
\* mode last written and the cached mode are the configured mode.
C8_AsStated ==
    ati_state = "returned" /\ AtiHasWritten =>
      /\ variant = "iqs7219" =>
           BitAnd(LastSetupWrite.v, IQS7219_SYS_SETUP_INTF_MODE_MASK) = intf_mode
      /\ variant = "iqs323" =>
           /\ intf_mode = IQS323_INTF_MODE_EVENT
           /\ Test(LastSetupWrite.v, IQS323_SYS_SETUP_EVENT_MODE)

\* C8: iqs7219_ati_trigger writes the configured mode back on its success
\* exit only: after any other exit every write that reached the device is a
\* redo-ATI command with the interface-mode bits cleared.  iqs323_ati_trigger
\* never writes the mode back: when it returns, its last write is a redo-ATI
\* command in streaming mode and the cached mode is STREAM, or ERROR if that
\* write failed; the mode is written back by a later decode pass that finds
\* the cached mode different from the one it wants.
C8_OverrideOnExit ==
    /\ variant = "iqs7219" /\ ati_state = "returned" =>
         /\ ati_err = 0 =>
              /\ LastSetupWrite.k = "restore"
              /\ BitAnd(LastSetupWrite.v, IQS7219_SYS_SETUP_INTF_MODE_MASK)
                 = intf_mode
         /\ ati_err # 0 =>
              \A k \in Positions(wlog, {"redo", "restore"}) :
                wlog[k].e = 0 =>
                  /\ wlog[k].k = "redo"
                  /\ BitAnd(wlog[k].v, IQS7219_SYS_SETUP_INTF_MODE_MASK) = 0
    /\ variant = "iqs323" /\ ati_state = "returned" =>
         /\ LastSetupWrite.k = "redo"
         /\ ~Test(LastSetupWrite.v, IQS323_SYS_SETUP_EVENT_MODE)
         /\ intf_mode = (IF LastSetupWrite.e = 0 THEN IQS323_INTF_MODE_STREAM
                         ELSE IQS323_INTF_MODE_ERROR)
    /\ variant = "iqs323" /\ branch = "normal" /\ pc = "idle" /\ error = 0 =>
         intf_mode = (IF new_flags < 65535 /\ sl_enable
                      THEN IQS323_INTF_MODE_STREAM ELSE IQS323_INTF_MODE_EVENT)

\* C8 witness: event mode configured, the retries ran out, and the device
\* was last told to stream
C8_Witness ==
    /\ variant = "iqs7219" /\ ati_state = "returned" /\ ati_err = -ETIMEDOUT
    /\ intf_mode = IQS7219_SYS_SETUP_INTF_MODE_EVENT
    /\ BitAnd(LastSetupWrite.v, IQS7219_SYS_SETUP_INTF_MODE_MASK) = 0

\* C9: iqs323_ati_trigger: a status read with the reset flag set ends the
\* trigger in the same step, with 0 and with no redo-ATI write after the one
\* that began the attempt, whatever the other flags are; a decode pass that
\* reads the reset flag (behind a valid check_comms word) runs writeAll.
C9_ResetEndsAti323 ==
    variant = "iqs323" =>
      /\ sys_status # -1 /\ sys_status \div 128 % 2 = 1 =>
           /\ ati_state = "returned"
           /\ ati_err = 0
           /\ wlog[Len(wlog)].k = "redo"
           /\ redo_writes = ati_i + 1
      /\ branch # "none" /\ check_ok /\ sys_flags \div 128 % 2 = 1 =>
           /\ acted = "init"
           /\ init_state # "idle"
           /\ dir = "WRITE"
           /\ wlog # <<>> => wlog[1].k = "ack"

\* C9 witness: a decode pass read the reset flag, and the ATI trigger of
\* its writeAll read reset + error + active in its third attempt
C9_Witness ==
    /\ variant = "iqs323" /\ acted = "init" /\ sys_flags = 128
    /\ sys_status = 224 /\ ati_i = 2 /\ redo_writes = 3
    /\ ati_state = "returned" /\ ati_err = 0 /\ pc = "idle"

\* the flags of the current pass's status word, by variant
PassFlag(name) ==
    LET bit == IF variant = "iqs7219"
               THEN CASE name = "reset" -> 2048
                      [] name = "ati_error" -> 512
                      [] OTHER -> 256
               ELSE CASE name = "reset" -> 128
                      [] name = "ati_error" -> 64
                      [] OTHER -> 32
    IN sys_flags \div bit % 2 = 1

\* C10: a decode pass of iqs7219 or iqs323 that has read its status word
\* (iqs323: behind a valid check_comms word) tests reset, ATI error, ATI
\* active in that order and acts on the first that is set: reset: writeAll;
\* ATI error: the ATI trigger alone; ATI active: nothing; in all three
\* cases it dispatches no event, stores no channel value and leaves the
\* cached status flags as they were.
C10_DecodeOrder ==
    variant \in {"iqs7219", "iqs323"} /\ branch # "none" /\ check_ok =>
      /\ PassFlag("reset") =>
           acted = "init" /\ init_state # "idle" /\ dir = "WRITE"
      /\ ~PassFlag("reset") /\ PassFlag("ati_error") =>
           acted = "ati" /\ init_state = "idle"
      /\ ~PassFlag("reset") /\ ~PassFlag("ati_error") /\ PassFlag("ati_active") =>
           acted = "none" /\ init_state = "idle" /\ ati_state = "idle"
           /\ wlog = <<>>
      /\ PassFlag("reset") \/ PassFlag("ati_error") \/ PassFlag("ati_active") =>
           /\ events = <<>>
           /\ val_out = FALSE
           /\ pxs_flags = pxs_before
           /\ ~trig_polled

\* C10 witness: the flags cache holds both channels, a channel value is
\* asked for, and the status word has reset, ATI error and ATI active set
C10_Witness ==
    /\ variant = "iqs7219" /\ pc = "idle" /\ val_req
    /\ sys_flags = 2816 /\ acted = "init" /\ pxs_before = 34
    /\ init_state = "returned"

\* what the recovery step of the current pass returned (0 when the pass
\* ran none)
RecoveryResult ==
    CASE acted = "init" -> init_err
      [] acted = "ati" -> ati_err
      [] OTHER -> 0

\* the pass has returned to its caller through one of the three paths
RecoveryPassDone ==
    /\ variant \in {"iqs7219", "iqs323"}
    /\ pc = "idle"
    /\ branch \in {"reset", "ati_error", "ati_active"}

\* C11: a pass that took the reset, ATI-error or ATI-active path returns,
\* when its recovery step (if any) returned 0, -EAGAIN and no value to the
\* caller that asked for a result (iqs7219: val given; iqs323: report_async)
\* and 0 on the interrupt path (iqs7219: val NULL; iqs323: report_sync);
\* when the recovery step failed, both paths return its error.
C11_RetryOrHandled ==
    RecoveryPassDone =>
      /\ val_out = FALSE
      /\ RecoveryResult = 0 => error = (IF val_req THEN -EAGAIN ELSE 0)
      /\ RecoveryResult # 0 => error = RecoveryResult

\* C11 witness: the interrupt path of iqs7219 read the reset flag and its
\* writeAll succeeded
C11_Witness ==
    /\ RecoveryPassDone /\ variant = "iqs7219" /\ branch = "reset"
    /\ ~val_req /\ init_state = "returned" /\ init_err = 0 /\ error = 0

\* bit `b` of the word `w`
FlagBit(w, b) == (w \div Pow2(b)) % 2

\* the (channel, event) pairs whose event is configured for the channel,
\* whose channel has its events enabled, and whose flag bit differs between
\* the flags cached before the pass and the flags the pass read
DiffPairs ==
    { p \in (0..(IQS7219_NUM_CHAN - 1)) \X (0..(IQS7219_NUM_PXS_EVENTS - 1)) :
        /\ FlagBit(event_mask[p[1]], p[2]) = 1
        /\ event_enable[p[1]]
        /\ FlagBit(new_flags, 4 * p[1] + p[2])
             # FlagBit(pxs_before, 4 * p[1] + p[2]) }

\* C12: a normal status read of iqs7219 that finds the proximity flags
\* equal to the cached ones dispatches no event; when exactly one configured
\* and enabled event bit differs it dispatches exactly one event, for that
\* channel, rising if the new bit is set and falling otherwise; the flags it
\* read are the cache of the next read.
C12_Debounce ==
    variant = "iqs7219" /\ branch = "normal" =>
      /\ new_flags = pxs_before => events = <<>>
      /\ \A p \in DiffPairs :
           DiffPairs = {p} =>
             events = <<[chan |-> p[1],
                         dir |-> IF FlagBit(new_flags, 4 * p[1] + p[2]) = 1
                                 THEN "RISING" ELSE "FALLING"]>>
      /\ pxs_flags = new_flags

\* C12 witness: a normal read stored the proximity bit of channel 0, and
\* the next one found it cleared
C12_Witness ==
    /\ variant = "iqs7219" /\ branch = "normal" /\ pc = "idle"
    /\ pxs_before = 2 /\ new_flags = 0
    /\ events = <<[chan |-> 0, dir |-> "FALLING"]>>

\* the events of the current pass that belong to channel `c`
ChanEvents(c) == SelectSeq(events, LAMBDA e : e.chan = c)

\* C13: every normal status read of iqs7219 stores the complete flag word
\* it read in the cache, also the flags of channels whose events are
\* disabled, and nothing else changes the cache (enabling or disabling a
\* channel's events does not); a read that finds a channel's flags equal to
\* the cached ones dispatches no event for that channel.  So a flag that
\* changed while the channel was disabled raises no event once the channel
\* is enabled and the same flags are read again.
C13_CacheAllChannels ==
    /\ [](variant = "iqs7219" /\ branch = "normal" =>
            /\ pxs_flags = new_flags
            /\ \A c \in 0..(IQS7219_NUM_CHAN - 1) :
                 ChanFlags7219(new_flags, c) = ChanFlags7219(pxs_before, c)
                   => ChanEvents(c) = <<>>)
    /\ [][pxs_flags' # pxs_flags => branch' = "normal" /\ pxs_flags' = new_flags']_vars

\* C13 witness: the proximity flag of channel 1 was stored while the events
\* of channel 1 were disabled, the events were enabled afterwards, and a
\* normal read has found the same flags
C13_Witness ==
    /\ variant = "iqs7219" /\ branch = "normal" /\ pc = "idle"
    /\ silent[1] /\ event_enable[1]
    /\ ChanFlags7219(new_flags, 1) = 2 /\ ChanFlags7219(pxs_before, 1) = 2
    /\ ChanEvents(1) = <<>>

\* C14: the value iqs7219_report_sync hands to the caller of a channel read
\* is max(longTermAverage - filteredCounts, 0) for every pair of 16-bit
\* readings: 0 when filteredCounts >= longTermAverage, the difference
\* otherwise.
C14_DeltaClamped7219 ==
    variant = "iqs7219" /\ val_out =>
      /\ scan.lta \in 0..U16_MAX /\ scan.counts \in 0..U16_MAX
      /\ scan.counts >= scan.lta => scan.delta = 0
      /\ scan.counts < scan.lta => scan.delta = scan.lta - scan.counts
      /\ scan.lta = 100 /\ scan.counts = 150 => scan.delta = 0
      /\ scan.lta = 150 /\ scan.counts = 100 => scan.delta = 50

\* C14 witness: the filtered counts 150 were read above the average 100
C14_Witness ==
    /\ variant = "iqs7219" /\ val_out /\ pc = "idle"
    /\ scan.lta = 100 /\ scan.counts = 150 /\ scan.delta = 0

\* C15 as stated: the delta ch_info_show reports is never negative
C15_AsStated ==
    variant = "iqs323" /\ val_out => scan.delta >= 0

\* C15: the delta ch_info_show of iqs323 reports is the signed difference
\* long-term average minus counts of the two 16-bit readings; it is negative
\* exactly when the counts are above the average, and lies in
\* -65535..65535.
C15_DeltaSigned323 ==
    variant = "iqs323" /\ val_out =>
      /\ scan.lta \in 0..U16_MAX /\ scan.counts \in 0..U16_MAX
      /\ scan.delta = scan.lta - scan.counts
      /\ scan.delta < 0 <=> scan.counts > scan.lta
      /\ scan.delta \in (-U16_MAX)..U16_MAX

\* C15 witness: counts 150 above the average 100 are reported as -50
C15_Witness ==
    /\ variant = "iqs323" /\ val_out /\ pc = "idle"
    /\ scan.lta = 100 /\ scan.counts = 150 /\ scan.delta = -50

(* ================================================================== *)
(* Properties of the configuration builder                             *)
(* ================================================================== *)
\* parse_props has returned at least `k` times
Ran(k) == pc = "idle" /\ Len(rets) >= k

\* the one-bit rows the call works on
BoolRows == { d \in Range(CallProps(variant, pp_call)) : d.width = 1 }

\* the bit of row `d` in an image
RowBit(img, d) == FlagBit(img[d.off], d.shift)

\* the value the bit of a one-bit row is to have for a node
WantedBit(d) ==
    IF fw[d.name] = Absent THEN (IF d.invert THEN 1 ELSE 0)
    ELSE (IF d.invert THEN 0 ELSE 1)

\* C16 as the claim states it: whenever the builder has run, each one-bit
\* field holds the inverted default when its key is absent and the
\* opposite when it is present.
C16_AsStated ==
    variant \in {"iqs7219", "iqs323"} /\ Ran(1) =>
      \A d \in BoolRows : RowBit(images[2], d) = WantedBit(d)

\* C16: when the builder returns 0 for a node that exists, each one-bit
\* field holds the inverted default (0, or 1 for an invert field) when its
\* key is absent and the opposite when it is present, whatever the bit was
\* before; when the builder stops with an error before it reaches the
\* field, or the child node of an iqs7219 group is missing, the bit is
\* what it was before.
C16_BoolForced ==
    variant \in {"iqs7219", "iqs323"} /\ Ran(1) =>
      \A d \in BoolRows :
        /\ pp_call.node /\ rets[1] = 0 => RowBit(images[2], d) = WantedBit(d)
        /\ ~pp_call.node => rets[1] = 0 /\ RowBit(images[2], d) = RowBit(images[1], d)
        /\ rets[1] # 0 =>
             RowBit(images[2], d) \in {WantedBit(d), RowBit(images[1], d)}
        /\ rets[1] # 0 /\ (\A e \in BoolRows : fw[e.name] = Absent) =>
             \E e \in Range(CallProps(variant, pp_call)) :
               e.width # 1 /\ fw[e.name] # Absent

\* C16 witness: an absent key of an invert field whose bit was 0 leaves
\* the bit at 1 after a run that returned 0
C16_Witness ==
    /\ variant = "iqs323" /\ Ran(1) /\ rets[1] = 0 /\ pp_call.node
    /\ \E d \in BoolRows :
         /\ d.invert /\ fw[d.name] = Absent
         /\ RowBit(images[1], d) = 0 /\ RowBit(images[2], d) = 1

\* the rows of the call with more than one bit (every row on the iqs9150,
\* which has no one-bit case)
ScalarRows ==
    { d \in Range(CallProps(variant, pp_call)) :
        variant = "iqs9150" \/ d.width # 1 }

\* the register of row `d` in an image, bytes joined low byte first
RowWord(img, d) ==
    LET a == IF variant = "iqs9150"
             THEN d.off + pp_call.index * Size(variant, d) ELSE d.off
    IN IF variant = "iqs9150" /\ Size(variant, d) = 2
       THEN img[a] + 256 * img[a + 1]
       ELSE img[a]

\* the bits of the field of row `d` in an image, moved down to bit 0
RowField(img, d) ==
    (RowWord(img, d) \div Pow2(d.shift)) % Pow2(Width(variant, d))

\* the call asks for a register past the span of a row of its group
PastSpan == variant = "iqs9150" /\ \E d \in ScalarRows : pp_call.index > d.span

\* the row the loop is at
AtRow == Props(variant)[pp_i]

\* C17: a scalar field whose key is absent keeps its bits: the pass of the
\* loop over its row changes nothing in the image and goes on to the next
\* row (the iqs9150 stops there only for an index past the row's span), the
\* field is the same after the run as before it, and a run that returns
\* an error always has a key that is present or such an index.
C17_AbsentScalarKept ==
    /\ [](Ran(1) =>
            /\ \A d \in ScalarRows :
                 fw[d.name] = Absent =>
                   RowField(images[2], d) = RowField(images[1], d)
            /\ rets[1] # 0 =>
                 PastSpan \/ \E d \in ScalarRows : fw[d.name] # Absent)
    /\ [][ /\ pc = "pp_loop" /\ pp_i <= Len(Props(variant))
           /\ AtRow \in ScalarRows /\ fw[AtRow.name] = Absent
           => /\ pp_setup' = pp_setup
              /\ IF PastSpan
                 THEN pc' = "idle" /\ error' = -EINVAL
                 ELSE pc' = "pp_loop" /\ pp_i' = pp_i + 1 /\ rets' = rets ]_vars

\* C17 witness: a run that returned 0 and rewrote a register for a key
\* that is present, with the other scalar field of that register, whose
\* key is absent, as it was
C17_Witness ==
    /\ Ran(1) /\ rets[1] = 0 /\ images[2] # images[1]
    /\ \E d \in ScalarRows, e \in ScalarRows :
         /\ d # e /\ d.off = e.off
         /\ fw[d.name] = Absent /\ fw[e.name] \notin {Absent, Empty}
         /\ RowField(images[1], d) # 0
         /\ RowField(images[2], d) = RowField(images[1], d)
         /\ RowField(images[2], e) # RowField(images[1], e)

\* the largest value of row `d`: its maximum, or all ones of the field
\* times the pitch when the row gives none
FieldMax(d) ==
    IF d.max = 0 THEN (Pow2(Width(variant, d)) - 1) * Pitch(d) ELSE d.max

\* the key of row `d` is present with a value from min to max
KeyInRange(d) == fw[d.name] >= 0 /\ d.min <= fw[d.name] /\ fw[d.name] <= FieldMax(d)

\* the field of row `d` read back: its place in the substitution table,
\* or the bits times the pitch
DecodeField(img, d) ==
    IF d.subs # <<>>
    THEN (CHOOSE k \in 1..Len(d.subs) : d.subs[k] = RowField(img, d)) - 1
    ELSE RowField(img, d) * Pitch(d)

\* the register of row `d` with the bits of the field taken out
RowRest(img, d) ==
    RowWord(img, d) - RowField(img, d) * Pow2(d.shift)

\* the registers of an image that row `d` is not in
OtherRegs(img, d) ==
    LET a == IF variant = "iqs9150"
             THEN d.off + pp_call.index * Size(variant, d) ELSE d.off
        own == IF variant = "iqs9150" /\ Size(variant, d) = 2 THEN {a, a + 1} ELSE {a}
    IN [r \in (DOMAIN img) \ own |-> img[r]]

\* the loop is at a scalar row of the call whose key is present and in range
EncodeCase ==
    /\ pc = "pp_loop" /\ pp_i <= Len(Props(variant))
    /\ AtRow \in ScalarRows /\ ~PastSpan
    /\ KeyInRange(AtRow)

\* C18 as the claim states it: the field of every value from min to max
\* decodes to that value.
C18_AsStated ==
    [][EncodeCase => DecodeField(pp_setup', AtRow) = fw[AtRow.name]]_vars

\* C18: encoding a value v from min to max into a register and decoding
\* the field gives v less its remainder by the pitch, which is v for a
\* pitch of 1, for a multiple of the pitch and for a field with a
\* substitution table; every bit of the register outside the field, and
\* every other register, keeps its value.
C18_EncodeDecode ==
    [][EncodeCase =>
         LET v == fw[AtRow.name]
         IN /\ DecodeField(pp_setup', AtRow) = v - (v % Pitch(AtRow))
            /\ v % Pitch(AtRow) = 0 => DecodeField(pp_setup', AtRow) = v
            /\ RowRest(pp_setup', AtRow) = RowRest(pp_setup, AtRow)
            /\ OtherRegs(pp_setup', AtRow) = OtherRegs(pp_setup, AtRow)
            /\ pc' = "pp_loop" /\ pp_i' = pp_i + 1]_vars

\* C18 witness: 513 ms in a field with a pitch of 512 ms has been encoded
\* over other bits and reads back as 512 ms, with the rest of the register,
\* which is not zero, as it was
C18_Witness ==
    /\ variant = "iqs323" /\ pc = "pp_loop" /\ pp_i > 1
    /\ LET d == Props(variant)[pp_i - 1]
       IN /\ d \in ScalarRows /\ Pitch(d) = 512 /\ fw[d.name] = 513
          /\ DecodeField(pp_setup, d) = 512
          /\ RowField(images[Len(images)], d) # RowField(pp_setup, d)
          /\ RowRest(pp_setup, d) # 0
          /\ RowRest(pp_setup, d) = RowRest(images[Len(images)], d)

\* the key of row `d` is present with a number
KeyNumber(d) == fw[d.name] >= 0

\* C19: the pass of the loop over a scalar row whose key is present with a
\* value below min or above max (max being (2^W - 1) * pitch when the row
\* gives none) makes the builder return -EINVAL with the image, and so the
\* register of that field, as the pass found it; a value from min to max
\* is never rejected by that pass, which goes on to the next row. After a
\* run, a field whose value was out of range has the bits it had before
\* the run, the run has returned an error, and a run whose keys are all
\* absent or in range returns 0.
C19_RangeChecked ==
    /\ [][ /\ pc = "pp_loop" /\ pp_i <= Len(Props(variant))
           /\ AtRow \in ScalarRows /\ KeyNumber(AtRow)
           => IF KeyInRange(AtRow)
              THEN PastSpan \/ (pc' = "pp_loop" /\ pp_i' = pp_i + 1 /\ rets' = rets)
              ELSE /\ pc' = "idle" /\ error' = -EINVAL
                   /\ rets' = Append(rets, -EINVAL)
                   /\ pp_setup' = pp_setup
                   /\ RowWord(pp_setup', AtRow) = RowWord(pp_setup, AtRow) ]_vars
    /\ [](Ran(1) =>
            /\ \A d \in ScalarRows :
                 KeyNumber(d) /\ ~KeyInRange(d) =>
                   /\ rets[1] \in {-EINVAL, -ENODATA}
                   /\ RowField(images[2], d) = RowField(images[1], d)
            /\ (\A d \in ScalarRows : fw[d.name] = Absent \/ KeyInRange(d)) /\ ~PastSpan
                 => rets[1] = 0)

\* C19 witness: a value one above the largest that a field with a pitch
\* and no maximum of its own takes has been refused with -EINVAL and the
\* image is as it was; the largest value itself is taken in another run
C19_Witness ==
    /\ Ran(1) /\ rets[1] = -EINVAL /\ images[2] = images[1]
    /\ \E d \in ScalarRows :
         /\ d.max = 0 /\ Pitch(d) > 1
         /\ fw[d.name] = (Pow2(Width(variant, d)) - 1) * Pitch(d) + 1
         /\ RowWord(images[1], d) # 0

\* C20: the builder run twice in a row on the same group with the same
\* node leaves the image the first run left and returns what the first
\* run returned, for every image it started from.
C20_Idempotent ==
    Ran(2) => images[3] = images[2] /\ rets[2] = rets[1]

\* C20 witness: two runs that returned 0 on an image with a pattern left
\* in it, with a one-bit key absent and a scalar key present; the first
\* run changed the image and the second did not
C20_Witness ==
    /\ variant \in {"iqs7219", "iqs323"} /\ Ran(2) /\ rets = <<0, 0>>
    /\ \E r \in DOMAIN images[1] : images[1][r] = 42405
    /\ \E d \in BoolRows : fw[d.name] = Absent /\ RowBit(images[2], d) # RowBit(images[1], d)
    /\ \E d \in ScalarRows : KeyNumber(d) /\ RowField(images[2], d) # RowField(images[1], d)
    /\ images[3] = images[2]

(* ================================================================== *)
(* Properties of the callbacks as contexts                             *)
(* ================================================================== *)
\* C21 as the claim states it: in every variant and under every
\* interleaving of the interrupt thread with calls of the command path, at
\* most one context is inside a handshake-plus-transaction sequence and at
\* most one is inside an update of the device state.
C21_AsStated ==
    /\ Cardinality(onbus) <= 1
    /\ Cardinality(mutating) <= 1

\* what holds of C21: the iqs7219, whose callbacks take the mutex, and the
\* iqs9150, whose only command paths are the sleep transitions, keep the
\* bus and the device state to one context at a time
C21_SerializedElsewhere ==
    variant # "iqs323" => C21_AsStated

\* calls of context `t` to disable_irq not yet matched by enable_irq
Disabled(t) == ctx[t].dis

\* C22: a caller of the command path is inside a bus sequence only between
\* its disable_irq and its enable_irq; it holds the interrupt disabled at
\* most once and not at all once it has returned, on every path, the error
\* paths included; the interrupt handler does not run while a caller is
\* between its disable and its enable; and the interrupt line is disabled
\* exactly as deep as there are such callers, so it is enabled whenever no
\* call of the command path is in progress.
C22_IrqBracketed ==
    /\ \A t \in Callers :
         /\ Disabled(t) \in {0, 1}
         /\ t \in onbus => Disabled(t) = 1
         /\ ctx[t].op = "idle" \/ ctx[t].i > Len(ctx[t].path) => Disabled(t) = 0
    /\ ctx["irq"].op # "idle" => \A t \in Callers : Disabled(t) = 0
    /\ irq_depth = Disabled("a") + Disabled("b")
    /\ (\A t \in Callers : ctx[t].op = "idle") => irq_depth = 0

\* C22 witness: one caller has come back from a failed status read with the
\* interrupt enabled again by it, while the other still holds it disabled
\* and is on the bus
C22_Witness ==
    /\ variant = "iqs7219"
    /\ ctx["a"].op = "read_raw" /\ Len(ctx["a"].path) = 6
    /\ ctx["a"].i > Len(ctx["a"].path) /\ Disabled("a") = 0
    /\ ctx["b"].op = "write_event_config" /\ "b" \in onbus /\ Disabled("b") = 1
    /\ irq_depth = 1 /\ ctx["irq"].op = "idle"

\* C23 as the claim states it: on the iqs7219 no callback reads or writes
\* a field of the device state without holding the mutex.
C23_AsStated ==
    variant = "iqs7219" => \A t \in Contexts : ctx[t].bare = {}

\* what holds of C23: every update of a field is made with the mutex held,
\* and the only fields touched without it are read: event_enable by
\* read_event_config, scan_mux by scan_mux_get and timestamp by the
\* trigger consumer
C23_WritesLocked ==
    variant = "iqs7219" =>
      /\ \A t \in mutating : lock = t
      /\ \A t \in Contexts :
           ctx[t].bare \subseteq
             (CASE ctx[t].op = "read_event_config" -> {"event_enable"}
                [] ctx[t].op = "scan_mux_get" -> {"scan_mux"}
                [] ctx[t].op \in {"trigger_consumer", "irq"} -> {"timestamp"}
                [] ctx[t].op = "idle" -> ctx[t].bare
                [] OTHER -> {})

(* ------------------------------------------------------------------ *)
(* Properties of probe                                                 *)
(* ------------------------------------------------------------------ *)
\* the calls probe has made that belong to `part`
Made(part) == {k \in 1..Len(probe.calls) : probe.calls[k].part = part}

\* the parsing of the configuration has failed
ParseFailed == \E k \in Made("parse") : probe.calls[k].r # 0

\* C24: when a call of the parsing fails, bring-up has returned that very
\* error and the failing call is the last one it made: the configuration is
\* never written, ATI never triggered, no interrupt handler requested, and no
\* call of the parsing made twice.
C24_ParseErrorAborts ==
    \A k \in Made("parse") :
        probe.calls[k].r # 0 =>
            /\ probe.pc = "returned"
            /\ probe.ret = probe.calls[k].r
            /\ k = Len(probe.calls)
            /\ Made("write") = {}
            /\ Made("irq") = {}
            /\ \A j \in Made("parse") :
                  probe.calls[j].name = probe.calls[k].name => j = k
            /\ Cardinality({j \in Made("parse") : probe.calls[j].r # 0}) = 1

\* a channel's parsing has failed on an iqs7219 behind six good calls
C24_Witness ==
    /\ variant = "iqs7219"
    /\ ParseFailed
    /\ probe.pc = "returned"
    /\ probe.ret = -EINVAL
    /\ Len(probe.calls) = 9
    /\ probe.calls[9].name = "parse_chan_0"

(* ------------------------------------------------------------------ *)
(* Properties of the cached mode of the iqs323                         *)
(* ------------------------------------------------------------------ *)
\* iqs323_dev_init(WRITE) has returned an error
WriteAllFailed323 ==
    /\ variant = "iqs323"
    /\ init_state = "returned"
    /\ dir = "WRITE"
    /\ init_err # 0

\* the last access of the call was a write of the mode that failed
ModeWriteFailed323 ==
    /\ wlog # <<>>
    /\ wlog[Len(wlog)].k \in {"ack", "redo"}
    /\ wlog[Len(wlog)].e # 0

\* C25: whenever iqs323_dev_init(WRITE) has returned an error, the cached
\* mode is IQS323_INTF_MODE_ERROR.
C25_AsStated == WriteAllFailed323 => intf_mode = IQS323_INTF_MODE_ERROR

\* C25, as the driver has it: the cached mode is the error mode exactly when
\* the step that failed was a write of the mode register (the reset
\* acknowledgement or a redo-ATI command); after any other failure it is
\* the streaming mode cached by the last good write.
C25_ModeWriteFailures ==
    WriteAllFailed323 =>
        /\ ModeWriteFailed323 => intf_mode = IQS323_INTF_MODE_ERROR
        /\ ~ModeWriteFailed323 => intf_mode = IQS323_INTF_MODE_STREAM

(* ------------------------------------------------------------------ *)
(* Properties of the slider of the iqs323                              *)
(* ------------------------------------------------------------------ *)
\* a decode pass of the iqs323 took the normal branch and returned 0
SliderPassDone323 ==
    /\ variant = "iqs323"
    /\ branch = "normal"
    /\ pc = "pe_out"
    /\ error = 0

\* the values the current pass reported for the slider's press key
PressValues323 ==
    {events[k].value : k \in {j \in 1..Len(events) :
                                events[j].chan = -2 /\ events[j].code = 0}}

\* C27: behind a successful normal decode pass of the iqs323 the cached mode
\* is streaming exactly when the pass read a slider coordinate other than
\* 0xFFFF and the input device has an absolute axis, and event-driven
\* otherwise; the press key was reported once, down exactly when the
\* coordinate is other than 0xFFFF; and the pass wrote the mode register
\* only when the mode it wanted differed from the cached one.
C27_SliderMode ==
    /\ [](SliderPassDone323 =>
            /\ intf_mode = IQS323_INTF_MODE_STREAM
                 <=> (new_flags # 65535 /\ sl_enable)
            /\ intf_mode = IQS323_INTF_MODE_EVENT
                 <=> ~(new_flags # 65535 /\ sl_enable)
            /\ PressValues323 = {IF new_flags # 65535 THEN 1 ELSE 0}
            /\ Len(SelectSeq(events, LAMBDA e : e.chan = -2 /\ e.code = 0)) = 1)
    /\ [][variant = "iqs323" /\ pc = "pe_decode" /\ branch' = "normal" =>
            /\ wlog' # wlog <=>
                 intf_mode # (IF new_flags' # 65535 /\ sl_enable
                              THEN IQS323_INTF_MODE_STREAM
                              ELSE IQS323_INTF_MODE_EVENT)
            /\ wlog' # wlog =>
                 /\ Len(wlog') = Len(wlog) + 1
                 /\ wlog'[Len(wlog')].k = "mode"]_vars

\* a pass found the slider in contact while event mode was cached, wrote the
\* streaming mode and reported the press key down
C27_Witness ==
    /\ SliderPassDone323
    /\ new_flags = 100
    /\ sl_enable
    /\ intf_mode = IQS323_INTF_MODE_STREAM
    /\ wlog # <<>>
    /\ wlog[Len(wlog)].k = "mode"
    /\ PressValues323 = {1}

(* ------------------------------------------------------------------ *)
(* Properties of suspend and resume                                    *)
(* ------------------------------------------------------------------ *)
\* the positions of the calls named `name` among those the transition made
PmMade(name) == {k \in 1..Len(pm.calls) : pm.calls[k].name = name}

\* the reads of the product number that returned another device's number
PmMismatches == {k \in PmMade("read_prod_num") : ~pm.calls[k].m}

\* a sleep transition of the iqs323 has run on a device that may not wake
\* the system and has returned
PmReturned323(mode) ==
    /\ variant = "iqs323"
    /\ pm.pc = "returned"
    /\ pm.mode = mode
    /\ pm.calls # <<>>

\* C26: a resume of the iqs323 that wrote the mode has read the product
\* number back behind it.
C26_AsStated ==
    PmReturned323("resume") /\ (\E k \in PmMade("write_mode") : pm.calls[k].r = 0)
        => PmMade("read_prod_num") # {}

\* C26, as the driver has it: the identity is read back behind the mode
\* write of a suspend, not of a resume.  A resume of the iqs323 is
\* disable_irq, one mode write, enable_irq, and returns what the write
\* returned; a suspend or resume of the iqs9150 is disable_irq, one write of
\* the control register, enable_irq.  In a suspend of the iqs323 every good
\* mode write is followed by a read of the product number, every mismatch by
\* a hardware reset and, when that succeeds, by dev_init(WRITE); there are
\* at most 5 mode writes, resets and dev_init calls; the step that fails
\* ends the transition with its own error, with no further bus call; and the
\* transition ends with -EIO for exhaustion exactly when 5 mismatches were
\* each followed by a good reset and a good dev_init.
C26_IdentityOnSuspend ==
    /\ PmReturned323("resume") =>
         /\ [k \in 1..Len(pm.calls) |-> pm.calls[k].name]
              = <<"disable_irq", "write_mode", "enable_irq">>
         /\ pm.ret = pm.calls[2].r
    /\ (variant = "iqs9150" /\ pm.pc = "returned" /\ pm.calls # <<>>) =>
         /\ [k \in 1..Len(pm.calls) |-> pm.calls[k].name]
              = <<"disable_irq", "write_control", "enable_irq">>
         /\ pm.ret = pm.calls[2].r
    /\ (variant = "iqs323" /\ pm.mode = "suspend") =>
         /\ Cardinality(PmMade("write_mode")) <= IQS323_NUM_RETRIES
         /\ Cardinality(PmMade("hard_reset")) <= IQS323_NUM_RETRIES
         /\ Cardinality(PmMade("dev_init_write")) <= IQS323_NUM_RETRIES
         /\ \A k \in 1..Len(pm.calls) - 1 :
              LET c == pm.calls[k]
                  n == pm.calls[k + 1].name
              IN  /\ c.name = "disable_irq" => n = "write_mode"
                  /\ c.name = "write_mode" =>
                       n = (IF c.r = 0 THEN "read_prod_num" ELSE "enable_irq")
                  /\ c.name = "read_prod_num" =>
                       n = (IF c.r = 0 /\ ~c.m THEN "hard_reset" ELSE "enable_irq")
                  /\ c.name = "hard_reset" =>
                       n = (IF c.r = 0 THEN "dev_init_write" ELSE "enable_irq")
                  /\ c.name = "dev_init_write" =>
                       n = (IF c.r = 0 /\ Cardinality({j \in PmMade("dev_init_write") :
                                                        j <= k})
                                         < IQS323_NUM_RETRIES
                            THEN "write_mode" ELSE "enable_irq")
    /\ PmReturned323("suspend") =>
         /\ pm.calls[Len(pm.calls)].name = "enable_irq"
         /\ LET last == pm.calls[Len(pm.calls) - 1]
                exhausted ==
                    /\ Cardinality(PmMismatches) = IQS323_NUM_RETRIES
                    /\ last.name = "dev_init_write"
                    /\ last.r = 0
            IN  /\ exhausted <=> pm.i = IQS323_NUM_RETRIES
                /\ pm.ret = (IF exhausted THEN -EIO ELSE last.r)
                /\ ~exhausted /\ pm.ret = 0 =>
                     last.name = "read_prod_num" /\ last.m

\* a suspend of the iqs323 gave up behind the fifth mismatch
C26_Witness ==
    /\ PmReturned323("suspend")
    /\ Cardinality(PmMismatches) = 5
    /\ Cardinality(PmMade("dev_init_write")) = 5
    /\ pm.calls[Len(pm.calls) - 1].r = 0
    /\ pm.ret = -EIO

(* ------------------------------------------------------------------ *)
(* Termination                                                         *)
(* ------------------------------------------------------------------ *)
\* the loops and waits stay within their ceilings
WithinCeilings ==
    /\ attempts <= NUM_RETRIES(variant)
    /\ bi <= NUM_RETRIES(variant)
    /\ fc_polls <= MaxPolls + 1
    /\ ati_i <= NUM_RETRIES(variant)
    /\ ati_n <= MaxAtiPolls + 1
    /\ pm.i <= IQS323_NUM_RETRIES

\* no operation is in progress: the burst has returned, no call of the driver
\* layer is open, no sleep transition is under way
AtRest ==
    /\ bpc = "done"
    /\ pc \in {"idle", "off"}
    /\ pm.pc \in {"idle", "off", "returned"}

\* an ATI trigger or a dev_init that has not returned yet keeps its caller's
\* call open
NestedInCall ==
    ati_state = "running" \/ init_state = "running" => pc \notin {"idle", "off"}

\* C28: every operation ends, whatever the ready line and the bus do: a
\* burst read or write returns, with at most 5 attempts and each wait for
\* the ready line ended by its timeout; every call of the driver layer
\* (dev_init, ATI trigger, decode pass, attribute read) comes back to its
\* caller, the ATI trigger and the dev_init inside it with it, within 5
\* attempts; a suspend or resume that has begun returns, within 5 rounds.
C28_Terminates ==
    /\ [](WithinCeilings /\ NestedInCall)
    /\ []<>AtRest

\* a burst has returned after 5 attempts in each of which the ready line was
\* never seen asserted, so that no bus transaction was made
C28_Witness ==
    /\ bpc = "done"
    /\ variant = "iqs323"
    /\ attempts = 5
    /\ xfers = 0
    /\ bret = -ETIMEDOUT
    /\ fc_polls = MaxPolls + 1
    /\ ~fc_seen

(* ------------------------------------------------------------------ *)
(* Properties of the scan multiplexer                                  *)
(* ------------------------------------------------------------------ *)
\* C29: every selector the parsing or the setter has stored is an index of
\* scan[], 0 .. IQS7219_NUM_SCAN - 1, and report_sync has never read behind
\* the array.
C29_AsStated ==
    /\ \A c \in 1..IQS7219_NUM_CHAN : mux.sel[c] \in 0..(IQS7219_NUM_SCAN - 1)
    /\ ~mux.oob

\* C29, the part that holds: a selector stored by the setter is an index of
\* scan[], no selector is above IQS7219_NUM_SCAN, and a read behind the
\* array is the read of a selector IQS7219_NUM_SCAN taken from the firmware
\* node.
C29_ParsedOnePastEnd ==
    /\ [](\A c \in 1..IQS7219_NUM_CHAN :
            /\ mux.sel[c] \in 0..IQS7219_NUM_SCAN
            /\ mux.src[c] # "parse" => mux.sel[c] < IQS7219_NUM_SCAN)
    /\ [][mux.oob' /\ ~mux.oob =>
            \E c \in 1..IQS7219_NUM_CHAN :
              mux.sel[c] = IQS7219_NUM_SCAN /\ mux.src[c] = "parse"]_vars

(* ------------------------------------------------------------------ *)
(* Properties of the event mask of the iqs7219                         *)
(* ------------------------------------------------------------------ *)
\* the event mask the flags ask for: ATI, and every channel whose events or
\* the trigger are enabled
WantedEventMask7219 ==
    LET of(c) == IF trig_enable \/ event_enable[c] THEN event_mask[c] ELSE 0
    IN  BitOr(IQS7219_EVENT_MASK_ATI, BitOr(of(0), of(1)))

\* the register was last written with an event mask, not with the hold of
\* a dev_init that is under way or has failed
MaskProgrammed7219 ==
    /\ variant = "iqs7219"
    /\ comms_setup # 0
    /\ comms_reg # -1
    /\ ~Test(comms_reg, IQS7219_COMMS_HOLD)

\* C30: on an iqs7219 with the communication setup register, a dev_init
\* that has returned 0 has left an event mask in the register; the mask last
\* programmed, by dev_init, write_event_config or set_trigger_state, is the
\* ATI bit and the event_mask[i] of every channel with trig_enable or
\* event_enable[i]; and a call of write_event_config or set_trigger_state
\* that fails leaves event_enable, trig_enable and the register as they
\* were.
C30_MaskFollowsFlags ==
    /\ [](/\ (variant = "iqs7219" /\ comms_setup # 0
              /\ init_state = "returned" /\ init_err = 0) => MaskProgrammed7219
          /\ MaskProgrammed7219 =>
               BitAnd(comms_reg, IQS7219_EVENT_MASK_ALL) = WantedEventMask7219)
    /\ [][pc = "idle" /\ pc' = "idle" /\ error' # 0 =>
            UNCHANGED <<event_enable, trig_enable, comms_reg>>]_vars

\* the trigger was enabled with success and a write_event_config has failed
\* since: the events of both channels are in the mask though channel 1 has
\* its events disabled
C30_Witness ==
    /\ MaskProgrammed7219
    /\ trig_enable
    /\ ~event_enable[1]
    /\ comms_reg = 15
    /\ pc = "idle"
    /\ error # 0
    /\ wlog # <<>>
    /\ wlog[Len(wlog)].k = "evcfg"

(* ------------------------------------------------------------------ *)
(* Properties of iqs323_write_mode                                     *)
(* ------------------------------------------------------------------ *)
\* the log entries iqs323_write_mode makes: the reset acknowledgement of
\* dev_init, the redo-ATI command and the mode written by a decode pass
ModeKinds323 == {"ack", "redo", "mode"}

\* the step is a call of iqs323_write_mode that has returned
WroteMode323 ==
    /\ variant = "iqs323"
    /\ Len(wlog') = Len(wlog) + 1
    /\ wlog'[Len(wlog')].k \in ModeKinds323

\* the communication mode a word written to SYS_SETUP selects
ModeOfWord323(w) ==
    IF Test(w, IQS323_SYS_SETUP_EVENT_MODE)
    THEN IQS323_INTF_MODE_EVENT
    ELSE IQS323_INTF_MODE_STREAM

\* whenever write_mode returns, the cache holds the mode the written word
\* selects if the write succeeded and the error mode if it failed
ModeCachedAsWritten323 ==
    WroteMode323 =>
        LET w == wlog'[Len(wlog')]
        IN intf_mode' = (IF w.e = 0 THEN ModeOfWord323(w.v)
                         ELSE IQS323_INTF_MODE_ERROR)

\* the step is a decode pass taking the normal path to its end
NormalPassStep323 ==
    /\ variant = "iqs323"
    /\ pc = "pe_decode"
    /\ branch' = "normal"

\* C31, as stated: whenever iqs323_write_mode returns, the cached mode is
\* the mode just written if the write succeeded and IQS323_INTF_MODE_ERROR
\* if it failed; after a failed mode write, the next decode pass that
\* completes normally writes the mode register again.
C31_AsStated ==
    [][/\ ModeCachedAsWritten323
       /\ NormalPassStep323 /\ mode_owed /\ error' = 0 => WroteMode323]_vars

\* C31, as the driver has it: whenever iqs323_write_mode returns, the cached
\* mode is the mode just written if the write succeeded and
\* IQS323_INTF_MODE_ERROR if it failed; the cached mode changes in no other
\* step, so after a failed mode write it stays ERROR until a later call of
\* write_mode succeeds; a decode pass that takes the normal path while the
\* cached mode is ERROR writes the mode register, and one that takes the
\* normal path without writing found the cached mode equal to the wanted
\* one.
C31_ModeCache ==
    [][/\ ModeCachedAsWritten323
       /\ variant = "iqs323" /\ intf_mode' # intf_mode => WroteMode323
       /\ NormalPassStep323 /\ intf_mode = IQS323_INTF_MODE_ERROR =>
            /\ WroteMode323
            /\ wlog'[Len(wlog')].k = "mode"
       /\ NormalPassStep323 /\ ~WroteMode323 =>
            /\ error' = 0
            /\ intf_mode = (IF new_flags' < U16_MAX /\ sl_enable
                            THEN IQS323_INTF_MODE_STREAM
                            ELSE IQS323_INTF_MODE_EVENT)]_vars

\* a decode pass is about to take the normal path while the mode write of an
\* earlier call has failed and the cached mode is still ERROR
C31_Witness ==
    /\ variant = "iqs323"
    /\ pc = "pe_decode"
    /\ DecodeBranch323(check_ok, sys_flags) = "normal"
    /\ mode_owed
    /\ intf_mode = IQS323_INTF_MODE_ERROR
    /\ init_state = "idle"

(* ------------------------------------------------------------------ *)
(* dev_init(READ) and the register image                               *)
(* ------------------------------------------------------------------ *)
\* the drivers whose dev_init takes a direction
MirrorVariants == {"iqs7219", "iqs323"}

\* the burst reads of dev_init(READ) in order, each <<group, row>>: the
\* iqs7219 reads a group in one burst, the iqs323 one row at a time
Bursts(v) ==
    IF v = "iqs7219"
    THEN [k \in 1..IQS7219_NUM_REG_GRPS |-> <<k - 1, 0>>]
    ELSE SelectSeq([k \in 1..(2 * IQS323_NUM_REG_GRPS) |->
                      <<(k - 1) \div 2, (k - 1) % 2>>],
                   LAMBDA b : HasSetup323(b[1]) /\ b[2] < NumRow323(b[1]))

\* first word of a block the chip returns in a read that succeeds
ChipWords == {0, 685}

\* what val_buf holds once read_burst has returned `e`, `b` being what it
\* held before: the chip's block; the sentinel; or, after a bus error,
\* what it held, the sentinel of an earlier attempt, or what a transfer
\* that broke off had stored
BufAfter(v, e, b) ==
    IF e = 0 THEN ChipWords
    ELSE IF e = -ENODATA THEN {COMMS_ERROR(v)}
    ELSE {b, COMMS_ERROR(v), 685}

\* "error = read_burst(...); for (...) val[j] = le16_to_cpu(val_buf[j]);":
\* the copy does not look at `error`
Copied(e, old, b) == b

\* dev_init(READ) is called on the image the allocation zeroed; the
\* iqs7219 first writes the hold bit, which may fail
ReadAllCall ==
    /\ variant \in MirrorVariants
    /\ mirror.pc = "idle"
    /\ \E e \in (IF variant = "iqs7219" THEN WriteResults ELSE {0}) :
         LET zero == [k \in 1..Len(Bursts(variant)) |-> 0]
         IN mirror' = [pc |-> IF e = 0 THEN "loop" ELSE "returned",
                       v |-> variant, i |-> 1, img |-> zero, was |-> zero,
                       buf |-> 0, read |-> {}, ret |-> e]
    /\ UNCHANGED <<busVars, callVars, initVars, wlog, atiVars, devVars, cfgVars,
                   passVars, propVars, comms_reg, ctxVars, probe, pm, mux, sched, pwr,
                   rate>>

\* one burst of the loop: a group starts with kcalloc, which may fail and
\* otherwise hands out a zeroed buffer; the rows of a group share it
ReadAllBurst ==
    /\ mirror.pc = "loop"
    /\ mirror.i <= Len(Bursts(mirror.v))
    /\ \/ /\ Bursts(mirror.v)[mirror.i][2] = 0
          /\ mirror' = [mirror EXCEPT !.pc = "returned", !.ret = -ENOMEM]
       \/ \E e \in ReadResults :
            LET b0 == IF Bursts(mirror.v)[mirror.i][2] = 0 THEN 0 ELSE mirror.buf
            IN \E b \in BufAfter(mirror.v, e, b0) :
                 mirror' = [mirror EXCEPT
                    !.buf = b,
                    !.img[mirror.i] = Copied(e, @, b),
                    !.read = IF e = 0 THEN @ \cup {mirror.i} ELSE @,
                    !.i = IF e = 0 THEN @ + 1 ELSE @,
                    !.ret = e,
                    !.pc = IF e = 0 THEN "loop" ELSE "returned"]
    /\ UNCHANGED <<busVars, callVars, initVars, wlog, atiVars, devVars, cfgVars,
                   passVars, propVars, comms_reg, ctxVars, probe, pm, mux, sched, pwr,
                   rate>>

\* the loop has run out: the iqs7219 writes its event mask, which may
\* fail; "if (dir == READ) return 0;"
ReadAllTail ==
    /\ mirror.pc = "loop"
    /\ mirror.i > Len(Bursts(mirror.v))
    /\ \E e \in (IF mirror.v = "iqs7219" THEN WriteResults ELSE {0}) :
         mirror' = [mirror EXCEPT !.pc = "returned", !.ret = e]
    /\ UNCHANGED <<busVars, callVars, initVars, wlog, atiVars, devVars, cfgVars,
                   passVars, propVars, comms_reg, ctxVars, probe, pm, mux, sched, pwr,
                   rate>>

InitReadAll ==
    /\ \E v \in MirrorVariants : BusIdle(v)
    /\ DrvQuiet
    /\ PropsParked
    /\ ExtParked

NextReadAll == ReadAllCall \/ ReadAllBurst \/ ReadAllTail

SpecReadAll == InitReadAll /\ [][NextReadAll]_vars

(* ------------------------------------------------------------------ *)
(* Properties of the register image                                    *)
(* ------------------------------------------------------------------ *)
\* C32: when a burst read of a register group fails during dev_init(READ),
\* the image of that group and of every group not yet read keeps the
\* content it had before the call; only groups whose read succeeded are
\* changed.
C32_AsStated ==
    mirror.pc = "returned" /\ mirror.ret # 0 =>
        \A k \in 1..Len(mirror.img) :
            k \notin mirror.read => mirror.img[k] = mirror.was[k]

(* ------------------------------------------------------------------ *)
(* Properties of the communication mode of the iqs9150                 *)
(* ------------------------------------------------------------------ *)
\* a call of iqs9150_report or init_device has returned to its caller
Returned9150 ==
    /\ variant = "iqs9150"
    /\ pc = "idle"
    /\ mode_before # "none"

\* C33: iqs9150_report switches the communication mode to WAIT only for the
\* write of CONFIG that follows a detected reset, and on every return path,
\* error paths included, comms_mode equals the value it had when the call
\* started (FORCE or FREE).
C33_AsStated ==
    /\ variant = "iqs9150" /\ comms_mode = "WAIT" => pc = "r9_config"
    /\ Returned9150 => comms_mode = mode_before /\ comms_mode \in {"FORCE", "FREE"}

----------------------------------------------------------------------------
\* Properties of the trigger of iqs7219

\* some configured event bit of some channel differs between the flags of
\* this read and the cached flags
EventDiffers7219(new, old) ==
    \E i \in 0..(IQS7219_NUM_CHAN - 1), j \in 0..(IQS7219_NUM_PXS_EVENTS - 1) :
        EventChanged7219(i, j, new, old)

\* the step of report_sync that polls the trigger
PollStep7219 == variant = "iqs7219" /\ trig_polled' /\ ~trig_polled

\* the step of report_sync that finds a channel valid for the trigger
PendingStep7219 == variant = "iqs7219" /\ trig_pending' /\ ~trig_pending

\* the poll comes after the lock was released, from a read that took the
\* normal path without error and found the trigger pending
PollAfterNormalRead7219 ==
    PollStep7219 => /\ pc = "rs_poll"
                    /\ lock = "none"
                    /\ branch = "normal"
                    /\ error = 0
                    /\ trig_pending

\* the trigger is pending only if it was enabled when the read was decoded
\* under the lock, and in event mode only if an event bit differs
PendingWhenEnabled7219 ==
    PendingStep7219 => /\ pc = "rs_decode"
                       /\ lock = "pass"
                       /\ trig_enable
                       /\ (intf_mode # 0 => EventDiffers7219(new_flags', pxs_before))

\* in streaming mode every read decoded on the normal path with the trigger
\* enabled leaves the trigger pending, and a pending trigger is polled
PollEveryStreamingRead7219 ==
    /\ (/\ variant = "iqs7219"
        /\ pc = "rs_decode"
        /\ branch' = "normal"
        /\ intf_mode = 0
        /\ trig_enable) => trig_pending'
    /\ (/\ variant = "iqs7219"
        /\ pc = "rs_poll"
        /\ pc' # "rs_poll"
        /\ error = 0
        /\ trig_pending) => trig_polled'

\* C34 as stated: the trigger is polled only after a read that completed the
\* normal path with no error, only while the trigger is enabled and only
\* after the lock was released; in event mode only when a configured event
\* bit differs from the cached flags, in streaming mode after every such
\* read.  Refuted: a synchronous read polls the trigger after
\* set_trigger_state, called from another thread once the lock was
\* released, has disabled it.
C34_AsStated ==
    [][/\ PollAfterNormalRead7219
       /\ PendingWhenEnabled7219
       /\ PollEveryStreamingRead7219
       /\ (PollStep7219 => trig_enable)]_vars

\* C34: the trigger is polled only after a status read that completed the
\* normal decode path with no error, only if the trigger was enabled when
\* that read was decoded under the lock, and only after the lock was
\* released; in event mode only when at least one configured event bit of
\* some channel differs from the cached flags, in streaming mode after every
\* such read.
C34_TriggerPoll ==
    [][/\ PollAfterNormalRead7219
       /\ PendingWhenEnabled7219
       /\ PollEveryStreamingRead7219]_vars

\* an event-mode read whose event bits differ from the cached flags has
\* polled the trigger
C34_Witness ==
    /\ variant = "iqs7219"
    /\ trig_polled
    /\ intf_mode # 0
    /\ branch = "normal"
    /\ lock = "none"
    /\ EventDiffers7219(new_flags, pxs_before)

(* ------------------------------------------------------------------ *)
(* iqs7219: the status read and the trigger consumer, thread by thread  *)
(* ------------------------------------------------------------------ *)
\* how many status reads end with a sample within one behaviour
MaxReads == 2

\* the callbacks a thread may start: the interrupt thread runs the
\* handler; a caller runs read_raw (report_async), a setter that disables
\* the interrupt (write_rate, write_event_config, set_trigger_state) or one
\* that only takes the lock (read_rate, scan_mux_set); when the device is
\* coupled to the trigger of another device, that trigger's thread runs the
\* consumer
Jobs7219(t, own) ==
    CASE t = "irq" -> {"irq"}
      [] t = "aux" /\ ~own -> {"consumer"}
      [] OTHER -> {"read_raw", "setter", "lock_only"}

\* where a job starts
FirstPc7219(job) ==
    CASE job = "irq" -> "rs_lock"
      [] job = "lock_only" -> "s_lock"
      [] job = "consumer" -> "c_start"
      [] OTHER -> "dis"

\* thread `t` moves to `p`; its locals end with the callback
Goto(t, p) ==
    [sched EXCEPT !.th[t] = IF p = "idle" THEN ThreadIdle ELSE [@ EXCEPT !.pc = p]]

OtherVars == <<busVars, callVars, initVars, wlog, atiVars, devVars, cfgVars,
               passVars, propVars, comms_reg, ctxVars, probe, pm, mux, mirror,
               pwr, rate>>

\* a thread starts a callback; the handler starts only while the interrupt
\* is enabled
ThreadStart(t) ==
    /\ sched.th[t].pc = "idle"
    /\ t = "irq" => sched.depth = 0
    /\ \E job \in Jobs7219(t, sched.own) :
         sched' = [sched EXCEPT !.th[t] = [ThreadIdle EXCEPT !.pc = FirstPc7219(job),
                                                            !.job = job]]
    /\ UNCHANGED OtherVars

\* "if (!iio_trigger_using_own(indio_dev))": the consumer reads the status
\* itself
RefreshAlways(own) == TRUE

RefreshNeeded(own) == ~own

\* trigger_consumer, entered
ConsumerStart(t) ==
    /\ sched.th[t].pc = "c_start"
    /\ sched' = [sched EXCEPT !.th[t].bp = FALSE,
                              !.th[t].pc = IF RefreshNeeded(sched.own)
                                           THEN "dis" ELSE "c_lock"]
    /\ UNCHANGED OtherVars

\* disable_irq: the line is masked ...
DisableIrq7219(t) ==
    /\ sched.th[t].pc = "dis"
    /\ sched' = [sched EXCEPT !.depth = @ + 1, !.th[t].pc = "sync"]
    /\ UNCHANGED OtherVars

\* ... and the caller waits for a handler that is running
SynchronizeIrq7219(t) ==
    /\ sched.th[t].pc = "sync"
    /\ sched.th["irq"].pc = "idle"
    /\ sched' = Goto(t, IF sched.th[t].job = "setter" THEN "s_lock" ELSE "rs_lock")
    /\ UNCHANGED OtherVars

\* mutex_lock
ThreadLock(t) ==
    /\ sched.th[t].pc \in {"rs_lock", "s_lock", "c_lock"}
    /\ sched.mtx = "none"
    /\ sched' = [sched EXCEPT !.mtx = t,
                              !.th[t].pc = CASE sched.th[t].pc = "rs_lock" -> "rs_body"
                                             [] sched.th[t].pc = "s_lock" -> "s_unlock"
                                             [] OTHER -> "c_copy"]
    /\ UNCHANGED OtherVars

\* report_sync under the lock: the read fails or leaves the normal path, or
\* it stores this read's values and timestamp; the read is known by its
\* number
SyncBody7219(t) ==
    /\ sched.th[t].pc = "rs_body"
    /\ \/ \E e \in {-5, 0} :
            sched' = [sched EXCEPT !.th[t].err = e, !.th[t].pend = FALSE,
                                   !.th[t].pc = "rs_unlock"]
       \/ /\ sched.n < MaxReads
          /\ \E v \in BOOLEAN :
               sched' = [sched EXCEPT !.n = @ + 1,
                                      !.scan_data = sched.n + 1,
                                      !.timestamp = sched.n + 1,
                                      !.trig_valid = v,
                                      !.th[t].err = 0,
                                      !.th[t].pend = v,
                                      !.th[t].pc = "rs_unlock"]
    /\ UNCHANGED OtherVars

\* mutex_unlock
ThreadUnlock(t) ==
    /\ sched.th[t].pc \in {"rs_unlock", "s_unlock", "c_unlock"}
    /\ sched' = [Goto(t, CASE sched.th[t].pc = "rs_unlock" -> "rs_poll"
                            [] sched.th[t].pc = "c_unlock" -> "c_push"
                            [] sched.th[t].job = "setter" -> "en"
                            [] OTHER -> "idle")
                   EXCEPT !.mtx = "none"]
    /\ UNCHANGED OtherVars

\* report_sync: "if (!error && trig_pending) iio_trigger_poll_chained()";
\* the consumer of a device coupled to its own trigger runs in this thread
SyncPoll7219(t) ==
    /\ sched.th[t].pc = "rs_poll"
    /\ sched' = Goto(t, IF sched.th[t].err = 0 /\ sched.th[t].pend /\ sched.own
                        THEN "c_start" ELSE "rs_ret")
    /\ UNCHANGED OtherVars

\* report_sync returns: to the interrupt core, or to report_async
SyncReturn7219(t) ==
    /\ sched.th[t].pc = "rs_ret"
    /\ sched' = Goto(t, IF sched.th[t].job = "irq" THEN "idle" ELSE "en")
    /\ UNCHANGED OtherVars

\* enable_irq; the consumer that refreshed the data goes on if the read
\* succeeded
EnableIrq7219(t) ==
    /\ sched.th[t].pc = "en"
    /\ sched' = [sched EXCEPT
                   !.depth = @ - 1,
                   !.th[t] = IF sched.th[t].job = "consumer" /\ sched.th[t].err = 0
                             THEN [@ EXCEPT !.bp = TRUE, !.pc = "c_lock"]
                             ELSE ThreadIdle]
    /\ UNCHANGED OtherVars

\* trigger_consumer under the lock: copy scan_data[]
ConsumerCopy(t) ==
    /\ sched.th[t].pc = "c_copy"
    /\ sched' = [sched EXCEPT !.th[t].sample = sched.scan_data,
                              !.th[t].bp = @ \/ sched.trig_valid,
                              !.th[t].pc = "c_unlock"]
    /\ UNCHANGED OtherVars

\* trigger_consumer after the lock was released:
\* iio_push_to_buffers_with_timestamp(indio_dev, &scan, iqs7219->timestamp),
\* then iio_trigger_notify_done
ConsumerPush(t) ==
    /\ sched.th[t].pc = "c_push"
    /\ sched' = [sched EXCEPT
                   !.pushed = IF sched.th[t].bp
                              THEN [d |-> sched.th[t].sample,
                                    t |-> sched.timestamp, n |-> 1]
                              ELSE @,
                   !.th[t] = IF sched.th[t].job = "consumer"
                             THEN ThreadIdle ELSE [@ EXCEPT !.pc = "rs_ret"]]
    /\ UNCHANGED OtherVars

\* a step of thread `t` inside a callback
ThreadRun(t) ==
    \/ ConsumerStart(t)
    \/ DisableIrq7219(t)
    \/ SynchronizeIrq7219(t)
    \/ ThreadLock(t)
    \/ SyncBody7219(t)
    \/ ThreadUnlock(t)
    \/ SyncPoll7219(t)
    \/ SyncReturn7219(t)
    \/ EnableIrq7219(t)
    \/ ConsumerCopy(t)
    \/ ConsumerPush(t)

\* the device is probed; it is coupled to its own trigger or to another one
InitThreads7219 ==
    /\ BusIdle("iqs7219")
    /\ DrvQuiet
    /\ PropsParked
    /\ CtxParked
    /\ probe = ProbeIdle
    /\ pm = PmIdle
    /\ mux = MuxIdle
    /\ comms_reg = -1
    /\ mirror = MirrorIdle
    /\ pwr = PwrIdle
    /\ rate = RateIdle
    /\ \E o \in BOOLEAN : sched = [SchedIdle EXCEPT !.own = o]

NextThreads7219 ==
    \/ \E t \in Threads7219 : ThreadStart(t)
    \/ \E t \in Threads7219 : ConsumerStart(t)
    \/ \E t \in Threads7219 : DisableIrq7219(t)
    \/ \E t \in Threads7219 : SynchronizeIrq7219(t)
    \/ \E t \in Threads7219 : ThreadLock(t)
    \/ \E t \in Threads7219 : SyncBody7219(t)
    \/ \E t \in Threads7219 : ThreadUnlock(t)
    \/ \E t \in Threads7219 : SyncPoll7219(t)
    \/ \E t \in Threads7219 : SyncReturn7219(t)
    \/ \E t \in Threads7219 : EnableIrq7219(t)
    \/ \E t \in Threads7219 : ConsumerCopy(t)
    \/ \E t \in Threads7219 : ConsumerPush(t)

SpecThreads7219 == InitThreads7219 /\ [][NextThreads7219]_vars

\* the scheduler runs every thread that can run, and the mutex is handed to
\* every thread that waits for it
SpecThreadsFair7219 ==
    /\ SpecThreads7219
    /\ \A t \in Threads7219 : SF_vars(ThreadRun(t))

(* ------------------------------------------------------------------ *)
(* Properties of the threads of iqs7219                                *)
(* ------------------------------------------------------------------ *)
\* C35: the timestamp pushed with a buffer sample is the timestamp of the
\* status read that produced the scan_data values of the sample, whatever
\* the interleaving of the consumer with the interrupt-driven and the
\* synchronous status reads.  Refuted: the consumer reads the timestamp
\* after it has released the lock, so a status read of another thread that
\* runs in between gives the sample its own, later timestamp.
C35_AsStated == sched.pushed.t = sched.pushed.d

\* no thread is inside a callback
AllReturned7219 == \A t \in Threads7219 : sched.th[t].pc = "idle"

\* the lock is held by a thread that is between its mutex_lock and its
\* mutex_unlock, and by no other
LockHeldInside7219 ==
    \A t \in Threads7219 :
        sched.mtx = t <=>
            sched.th[t].pc \in {"rs_body", "rs_unlock", "s_unlock", "c_copy", "c_unlock"}

\* C36: the interrupt thread (lock, unlock, then the chained consumer that
\* takes the lock again), the synchronous command paths (disable the
\* interrupt and wait for a running handler, lock, unlock, enable the
\* interrupt) and the setters that only take the lock never deadlock: in
\* every interleaving each started call returns.
C36_NoDeadlock ==
    /\ \A t \in Threads7219 : (sched.th[t].pc # "idle") ~> (sched.th[t].pc = "idle")
    /\ [](sched.depth \in 0..2)
    /\ []LockHeldInside7219

\* the interrupt thread runs the chained consumer and waits for the lock,
\* which a setter that only takes the lock holds, while a synchronous caller
\* has disabled the interrupt and waits for the handler to end
C36_Witness ==
    /\ sched.own
    /\ sched.th["irq"].pc = "c_lock"
    /\ sched.mtx = "cmd"
    /\ sched.th["cmd"].job = "lock_only"
    /\ sched.th["aux"].pc = "sync"

(* ------------------------------------------------------------------ *)
(* Properties of the windows of iqs7219_ati_trigger                    *)
(* ------------------------------------------------------------------ *)
\* the ATI trigger of the iqs7219 is inside an attempt: the redo-ATI
\* command was written and the window runs
InWindow7219 == variant = "iqs7219" /\ pc \in {"ati_poll", "ati_status", "ati_cond"}

\* the last access of the log
LastAccess(log) == log[Len(log)]

\* C37: iqs7219_ati_trigger: when the ATI-active flag stays set, or the
\* ready line is never asserted, for a whole window, the attempt counts as
\* failed and the redo-ATI command is written again; after 5 such windows
\* the call returns -ETIMEDOUT; a status read or a command write that fails
\* on the bus ends the call at once with that error.
C37_AtiWindows7219 ==
    [][variant = "iqs7219" =>
         \* the window has elapsed: one more failed attempt, no return
         /\ (pc = "ati_cond" /\ pc' \notin {"ati_cond", "ati_poll"}) =>
              /\ pc' = "ati_loop"
              /\ ati_i' = ati_i + 1
              /\ ati_state' = "running"
              /\ wlog' = wlog
         \* inside a window the ready line was polled and, when it was
         \* asserted, the status read with the ATI-active flag set
         /\ (pc = "ati_status" /\ pc' = "ati_cond") => aan' \in {1, 2, -1}
         \* after a failed attempt the command is written again, up to 5 times
         /\ (pc = "ati_loop" /\ pc' # "ati_loop" /\ ati_i < IQS7219_NUM_RETRIES) =>
              pc' = "ati_redo" /\ ati_state' = "running"
         /\ (pc = "ati_redo" /\ pc' # "ati_redo") =>
              /\ Len(wlog') = Len(wlog) + 1
              /\ LastAccess(wlog').k = "redo"
              /\ redo_writes' = ati_i + 1
         /\ (pc = "ati_loop" /\ pc' # "ati_loop" /\ ati_i >= IQS7219_NUM_RETRIES) =>
              /\ ati_state' = "returned"
              /\ ati_err' = -ETIMEDOUT
              /\ redo_writes = IQS7219_NUM_RETRIES
         \* a command write that fails ends the call with its error
         /\ (/\ pc \in {"ati_redo", "ati_status"}
             /\ Len(wlog') = Len(wlog) + 1
             /\ LastAccess(wlog').e # 0) =>
              /\ ati_state' = "returned"
              /\ ati_err' = LastAccess(wlog').e
              /\ pc' \notin {"ati_poll", "ati_status", "ati_cond", "ati_loop", "ati_redo"}
         \* a status read that fails ends the call with its error
         /\ (/\ pc = "ati_status"
             /\ pc' \notin {"ati_status", "ati_cond", "ati_loop"}
             /\ wlog' = wlog) =>
              /\ ati_state' = "returned"
              /\ ati_err' \in ReadErrors
         \* nothing but a return, a flag read or an elapsed window ends a window
         /\ (InWindow7219 /\ ati_state' = "running") => redo_writes' = redo_writes
    ]_vars

\* C37 witness: five windows elapsed, none ended by the ATI-error flag being
\* read, five redo-ATI writes, -ETIMEDOUT
C37_Witness ==
    /\ variant = "iqs7219"
    /\ ati_state = "returned"
    /\ ati_err = -ETIMEDOUT
    /\ ~err_only
    /\ aan \in {1, 2}
    /\ ati_i = IQS7219_NUM_RETRIES
    /\ redo_writes = IQS7219_NUM_RETRIES

(* ------------------------------------------------------------------ *)
(* Properties of the gestures                                          *)
(* ------------------------------------------------------------------ *)
\* every press of key (ch, c) in the reports of the pass is followed by a
\* sync and, behind the sync, by a release of the key
ReleasedAfterSync(ch, c) ==
    \A k \in 1..Len(events) :
        events[k] = [chan |-> ch, code |-> c, value |-> 1] =>
            \E s \in (k + 1)..Len(events), r \in (k + 2)..Len(events) :
                /\ s < r
                /\ events[s] = SyncReport
                /\ events[r] = [chan |-> ch, code |-> c, value |-> 0]

\* key (ch, c) is reported at most once in the pass, pressed if `down` and
\* released if not
ReportedAsStatus(ch, c, down) ==
    LET at == {k \in 1..Len(events) : events[k].chan = ch /\ events[k].code = c}
    IN /\ Cardinality(at) <= 1
       /\ \A k \in at : events[k].value = (IF down THEN 1 ELSE 0)

\* the gestures of the iqs323 that last: the swipes and the hold
Lasting323 ==
    {i \in 1..Len(iqs323_sl_masks) : Test(iqs323_sl_masks[i], IQS323_SLDR_STATUS_BUSY)}

\* the momentary gestures of the iqs323: the tap and the flicks
Momentary323 ==
    {i \in 1..Len(iqs323_sl_masks) : iqs323_sl_masks[i] # 0} \ Lasting323

\* the gestures of the iqs9150 that last: the holds and the palm
Lasting9150 ==
    {i \in 1..Len(iqs9150_kp_events) : iqs9150_kp_events[i].key \in {"HOLD", "PALM"}}

\* C38: a momentary gesture (iqs323 tap and flick; iqs9150 every gesture
\* other than hold and palm) that is reported as pressed is followed, in
\* the same pass and behind a sync, by its release; a gesture that lasts is
\* reported once and as its status bit stands, so it is released only when
\* the bit is clear.
C38_MomentaryGestures ==
    /\ variant = "iqs323" =>
         /\ \A i \in Momentary323 : ReleasedAfterSync(-2, i - 1)
         /\ \A i \in Lasting323 :
              ReportedAsStatus(-2, i - 1,
                  BitAnd(status.f0, iqs323_sl_masks[i]) = iqs323_sl_masks[i])
    /\ variant = "iqs9150" =>
         /\ \A i \in (1..Len(iqs9150_kp_events)) \ Lasting9150 :
              ReleasedAfterSync(-4, i)
         /\ \A i \in Lasting9150 :
              ReportedAsStatus(-4, i,
                  Test(KpFlags9150(iqs9150_kp_events[i].grp, sys_flags, status),
                       iqs9150_kp_events[i].mask))

\* C38 witness: a pass of the iqs9150 reported a tap and a hold as pressed,
\* and released the tap behind a sync
C38_Witness ==
    /\ variant = "iqs9150"
    /\ \E i \in (1..Len(iqs9150_kp_events)) \ Lasting9150, k \in 1..Len(events) :
         /\ events[k] = KeyReport9150(i, 1)
         /\ \E r \in (k + 2)..Len(events) : events[r] = KeyReport9150(i, 0)
    /\ \E i \in Lasting9150, k \in 1..Len(events) : events[k] = KeyReport9150(i, 1)

(* ------------------------------------------------------------------ *)
(* iqs323_parse_all: the power mode behind the parsing                 *)
(* ------------------------------------------------------------------ *)
IQS323_POWER_MODE_NP == 0
IQS323_POWER_MODE_LP == 1
IQS323_POWER_MODE_ULP == 2
IQS323_POWER_MODE_HALT == 3
IQS323_POWER_MODE_AUTO == 4
IQS323_POWER_MODE_AUTO_NO_ULP == 5
IQS323_PROD_NUM_REL == 1106
IQS323_PROD_NUM_MOV == 1462
IQS323_SNSR_SETUP_0_MOV_EN == 64

\* sys_setup[0] behind the parsing: each power mode the property may select
\* (val_max is IQS323_POWER_MODE_AUTO_NO_ULP), with and without other bits
SetupImages323 ==
    {pw * 16 + low : pw \in 0..IQS323_POWER_MODE_AUTO_NO_ULP, low \in {0, 129}}

\* snsr_setup[i][0] of the three channels behind the parsing
SnsrImages323 == [0..(IQS323_NUM_CHAN - 1) -> {0, 1, IQS323_SNSR_SETUP_0_MOV_EN}]

\* gen_setup[2] behind the parsing: no press timeout, or one
TimeoutImages323 == {0, 10}

\* (sys_setup[0] & IQS323_SYS_SETUP_POWER_MODE_MASK) >> ..._SHIFT
PowerMode323(w) ==
    BitAnd(w, IQS323_SYS_SETUP_POWER_MODE_MASK) \div Pow2(IQS323_SYS_SETUP_POWER_MODE_SHIFT)

\* the press timeout is not looked at
UlpRestrictedByMovement323(prod, snsr, gen2) ==
    /\ prod = IQS323_PROD_NUM_MOV
    /\ \E i \in DOMAIN snsr : Test(snsr[i], IQS323_SNSR_SETUP_0_MOV_EN)

\* "if (i < IQS323_NUM_CHAN || iqs323->gen_setup[2])", i being where the loop
\* over the channels broke off
UlpRestricted323(prod, snsr, gen2) ==
    \/ /\ prod = IQS323_PROD_NUM_MOV
       /\ \E i \in DOMAIN snsr : Test(snsr[i], IQS323_SNSR_SETUP_0_MOV_EN)
    \/ gen2 # 0

\* sys_setup[0] as iqs323_parse_all leaves it
SetupAfterParse323(w, prod, snsr, gen2) ==
    IF /\ PowerMode323(w) \in {IQS323_POWER_MODE_ULP, IQS323_POWER_MODE_AUTO}
       /\ UlpRestricted323(prod, snsr, gen2)
    THEN BitOr(BitClear(w, IQS323_SYS_SETUP_POWER_MODE_MASK),
               (IF PowerMode323(w) = IQS323_POWER_MODE_ULP
                THEN IQS323_POWER_MODE_LP
                ELSE IQS323_POWER_MODE_AUTO_NO_ULP)
                 * Pow2(IQS323_SYS_SETUP_POWER_MODE_SHIFT))
    ELSE w

PwrOthers == <<busVars, callVars, initVars, wlog, atiVars, devVars, cfgVars,
               passVars, propVars, comms_reg, ctxVars, probe, pm, mux, mirror,
               sched, rate>>

\* iqs323_parse_all: the loops over the register groups; a group that does
\* not parse ends the call
ParseAllGroups323 ==
    /\ pwr.pc = "idle"
    /\ \E prod \in {IQS323_PROD_NUM_REL, IQS323_PROD_NUM_MOV},
          w \in SetupImages323, snsr \in SnsrImages323,
          gen2 \in TimeoutImages323, e \in {0, -EINVAL} :
         pwr' = [pc |-> IF e = 0 THEN "tail" ELSE "returned",
                 prod |-> prod, setup0 |-> w, was |-> w, gen2 |-> gen2,
                 mov |-> snsr, ret |-> e]
    /\ UNCHANGED PwrOthers

\* iqs323_parse_all: the power mode is looked over, return 0
ParseAllPower323 ==
    /\ pwr.pc = "tail"
    /\ pwr' = [pwr EXCEPT
                 !.setup0 = SetupAfterParse323(pwr.setup0, pwr.prod, pwr.mov, pwr.gen2),
                 !.pc = "returned", !.ret = 0]
    /\ UNCHANGED PwrOthers

InitParseAll323 ==
    /\ BusIdle("iqs323")
    /\ DrvQuiet
    /\ PropsParked
    /\ ExtParked

NextParseAll323 == ParseAllGroups323 \/ ParseAllPower323

SpecParseAll323 == InitParseAll323 /\ [][NextParseAll323]_vars

\* neither a press timeout nor, on the movement variant, a channel with the
\* movement UI stands in the way of ULP
UlpFree323 ==
    /\ pwr.gen2 = 0
    /\ pwr.prod = IQS323_PROD_NUM_MOV =>
         \A i \in DOMAIN pwr.mov : ~Test(pwr.mov[i], IQS323_SNSR_SETUP_0_MOV_EN)

\* C39: after iqs323_parse_all has succeeded the power mode of the system
\* setup image is ULP or automatic-with-ULP only if gen_setup[2] is 0 and,
\* on the movement variant, no channel has the movement UI enabled;
\* otherwise ULP has been replaced by LP and automatic by
\* automatic-without-ULP, the other bits and the other modes being kept.
C39_UlpRestricted ==
    pwr.pc = "returned" /\ pwr.ret = 0 =>
      LET now == PowerMode323(pwr.setup0)
          was == PowerMode323(pwr.was)
      IN /\ now \in {IQS323_POWER_MODE_ULP, IQS323_POWER_MODE_AUTO} => UlpFree323
         /\ ~UlpFree323 /\ was = IQS323_POWER_MODE_ULP => now = IQS323_POWER_MODE_LP
         /\ ~UlpFree323 /\ was = IQS323_POWER_MODE_AUTO =>
              now = IQS323_POWER_MODE_AUTO_NO_ULP
         /\ UlpFree323 \/ was \notin {IQS323_POWER_MODE_ULP, IQS323_POWER_MODE_AUTO} =>
              pwr.setup0 = pwr.was
         /\ BitClear(pwr.setup0, IQS323_SYS_SETUP_POWER_MODE_MASK)
              = BitClear(pwr.was, IQS323_SYS_SETUP_POWER_MODE_MASK)

\* C39 witness: automatic mode was selected on the relative variant with a
\* press timeout and a sensor word that has bit 6 set; the image holds
\* automatic-without-ULP
C39_Witness ==
    /\ pwr.pc = "returned" /\ pwr.ret = 0
    /\ pwr.prod = IQS323_PROD_NUM_REL
    /\ pwr.gen2 # 0
    /\ \E i \in DOMAIN pwr.mov : Test(pwr.mov[i], IQS323_SNSR_SETUP_0_MOV_EN)
    /\ PowerMode323(pwr.was) = IQS323_POWER_MODE_AUTO
    /\ PowerMode323(pwr.setup0) = IQS323_POWER_MODE_AUTO_NO_ULP

(* ------------------------------------------------------------------ *)
(* iqs7219_write_rate                                                  *)
(* ------------------------------------------------------------------ *)
IQS7219_UHZ_PER_MS == 1000000000
IQS7219_MAX_RATE_MS == 3000
IQS7219_MAX_RATE_HZ == 1000

\* the integer and the micro part of the frequency the attribute is written
\* with, as the IIO core parses them: "0.5", "1", "2", "1000", "1000.000001",
\* "1001", "0", "0.333334", "0.333333", "-1", "-0.5", "-2000"; all of them
\* inside the range where val * 1000000 + val2 fits an int
RateRequests ==
    {<<0, 500000>>, <<1, 0>>, <<2, 0>>, <<1000, 0>>, <<1000, 1>>, <<1001, 0>>,
     <<0, 0>>, <<0, 333334>>, <<0, 333333>>, <<-1, 0>>, <<0, -500000>>,
     <<-2000, 0>>}

\* the division of C: the quotient is cut towards zero
CDiv(a, b) ==
    LET q == (IF a < 0 THEN -a ELSE a) \div (IF b < 0 THEN -b ELSE b)
    IN IF (a < 0) # (b < 0) THEN -q ELSE q

\* the u16 parameter of write_word and the u16 sys_setup[5]
ToU16(x) == x % 65536

\* rate_uhz = val * 1000000 + val2
RateUhz7219(val, val2) == val * 1000000 + val2

\* the three tests of iqs7219_write_rate: 0 if the request goes on
RateChecked7219(val, val2) ==
    IF val > IQS7219_MAX_RATE_HZ THEN -EINVAL
    ELSE IF RateUhz7219(val, val2) = 0 THEN -EINVAL
    ELSE IF CDiv(IQS7219_UHZ_PER_MS, RateUhz7219(val, val2)) > IQS7219_MAX_RATE_MS
    THEN -EINVAL
    ELSE 0

RateOthers == <<busVars, callVars, initVars, wlog, atiVars, devVars, cfgVars,
                passVars, propVars, comms_reg, ctxVars, probe, pm, mux, mirror,
                sched, pwr>>

\* iqs7219_write_raw, IIO_CHAN_INFO_SAMP_FREQ: write_rate is called
WriteRateCall7219 ==
    /\ rate.pc \in {"idle", "returned"}
    /\ \E r \in RateRequests :
         rate' = [rate EXCEPT !.pc = "check", !.val = r[1], !.val2 = r[2],
                              !.ms = 0, !.ret = 0]
    /\ UNCHANGED RateOthers

\* iqs7219_write_rate: the tests ahead of the lock
WriteRateCheck7219 ==
    /\ rate.pc = "check"
    /\ rate' = IF RateChecked7219(rate.val, rate.val2) # 0
               THEN [rate EXCEPT !.pc = "returned",
                                 !.ret = RateChecked7219(rate.val, rate.val2)]
               ELSE [rate EXCEPT !.pc = "write",
                                 !.ms = CDiv(IQS7219_UHZ_PER_MS,
                                             RateUhz7219(rate.val, rate.val2))]
    /\ UNCHANGED RateOthers

\* iqs7219_write_rate under the lock: the word is written and, if the write
\* succeeded, mirrored
WriteRateWrite7219 ==
    /\ rate.pc = "write"
    /\ \E e \in WriteResults :
         rate' = [rate EXCEPT !.pc = "returned", !.ret = e,
                              !.reg = IF e = 0 THEN ToU16(rate.ms) ELSE @,
                              !.setup5 = IF e = 0 THEN ToU16(rate.ms) ELSE @]
    /\ UNCHANGED RateOthers

InitRate7219 ==
    /\ BusIdle("iqs7219")
    /\ DrvQuiet
    /\ PropsParked
    /\ ExtParked

NextRate7219 == WriteRateCall7219 \/ WriteRateCheck7219 \/ WriteRateWrite7219

SpecRate7219 == InitRate7219 /\ [][NextRate7219]_vars

\* C40: iqs7219_write_rate writes a report period to the device only when
\* the period computed from the requested frequency lies in 1 to 3000 ms;
\* every request whose period is 0, negative or above 3000 ms is rejected
\* with -EINVAL, and a request that is rejected or fails leaves the device
\* register and sys_setup[5] as they were.  Refuted: only periods above
\* 3000 ms and a frequency of exactly 0 are rejected; a period of 0 (more
\* than 1 kHz) and a negative period are written.
C40_AsStated ==
    [][/\ (rate.pc = "check" /\ rate'.pc = "write") =>
            rate'.ms \in 1..IQS7219_MAX_RATE_MS
       /\ (rate'.pc = "returned" /\ rate.pc # "returned" /\ rate'.ret # 0) =>
            rate'.reg = rate.reg /\ rate'.setup5 = rate.setup5
       /\ rate'.reg # rate.reg => rate'.reg \in 1..IQS7219_MAX_RATE_MS
    ]_vars

====
